---- MODULE Spec2Model ----
(***************************************************************************)
(* AlgoLab: the CPU scheduling engine (ProcessScheduling.js, kept in       *)
(* src/README.md), the Fit memory allocator (FitAlgorithm.js), the MFT/MVT *)
(* partition manager and the Banker's engine (BanksAlgorithm.js), the page *)
(* replacement engine (PageReplacement.js), the disk scheduling engine     *)
(* (DiskScheduling.js, kept in src/unnamed/part_000) and the file          *)
(* allocation engine (FileAllocations.js, kept in src/README.md), the     *)
(* producer-consumer simulation (ProcessSynchronization.js) and the dining *)
(* philosophers script (kept in BanksAlgorithm.js).  Each component has    *)
(* its own variables and its own specification; the others stay as built.  *)
(*                                                                         *)
(* Times are JavaScript Numbers.  The scheduling form takes arrival, burst *)
(* and quantum in steps of 0.1, so the arithmetic of the engine is binary  *)
(* floating point: every + and - rounds its exact result to the nearest    *)
(* representable value, ties to even.  A Number is modelled as an integer  *)
(* count of Unit-ths (Unit a power of two), and the rounding keeps         *)
(* SignificandBits significant bits.  binary64 keeps 53; the rounding rule *)
(* is the same at every width.                                             *)
(***************************************************************************)
EXTENDS Integers, Sequences, FiniteSets, TLC

(* ------------------------------ bounds -------------------------------- *)
MaxProcs == 2
SignificandBits == 6
\* Fit engine: allocations per run, the first clock reading, the most the
\* clock advances between two readings
MaxAllocs == 3
StartClock == 2
MaxTick == 2

(* Decimal literals the forms can hold, in tenths (0.1 .. 2.0).           *)
ArrivalTenths == {0, 3, 10}
BurstTenths == {1, 10, 20}
Priorities == {1, 2}

(* --------------------------- Number arithmetic ------------------------ *)
Pow2(n) == 2 ^ n

\* 1.0 in model units; 0.1 has its last significant bit at 2^-(bits+3)
Unit == Pow2(SignificandBits + 3)

BitLen(n) == IF n = 0 THEN 0 ELSE CHOOSE b \in 1..24 : Pow2(b - 1) <= n /\ n < Pow2(b)

\* num/den (>= 0) rounded to the nearest representable value, ties to even
RoundRat(num, den) ==
  LET f == num \div den
      \* e: how many low bits of the quotient the significand cannot hold
      Scaled(e) ==
        LET step == den * Pow2(e)
            q    == num \div step
            rem  == num - q * step
            up   == IF 2 * rem > step \/ (2 * rem = step /\ q % 2 = 1) THEN 1 ELSE 0
        IN (q + up) * Pow2(e)
  IN CHOOSE r \in {Scaled(IF len > SignificandBits THEN len - SignificandBits ELSE 0) :
                     len \in {BitLen(f)}} : TRUE

Round(n) == IF n >= 0 THEN RoundRat(n, 1) ELSE 0 - RoundRat(0 - n, 1)

\* a + b and a - b on Numbers
FAdd(a, b) == Round(a + b)
FSub(a, b) == Round(a - b)

\* Number("<k/10>"): the Number nearest to the decimal literal
Decimal(k) == RoundRat(k * Unit, 10)

Max(a, b) == IF a >= b THEN a ELSE b
Min(a, b) == IF a <= b THEN a ELSE b

\* null (startTime, completionTime); times are never negative
Null == 0 - 1

\* Infinity: above every time the bounded workloads reach
Infinity == Pow2(24)
IsFinite(x) == x < Infinity

(* ------------------------- scheduling: inputs ------------------------- *)
\* a text field: a decimal literal (in tenths), an empty field, or a word
Dec(k) == [kind |-> "decimal", tenths |-> k]
Blank == [kind |-> "blank", tenths |-> 0]
Word == [kind |-> "word", tenths |-> 0]

\* Number(text): [nan, val]
NumberOf(tok) ==
  CASE tok.kind = "word"  -> [nan |-> TRUE, val |-> 0]
    [] tok.kind = "blank" -> [nan |-> FALSE, val |-> 0]
    [] OTHER -> [nan |-> FALSE,
                 val |-> IF tok.tenths >= 0 THEN Decimal(tok.tenths)
                         ELSE 0 - Decimal(0 - tok.tenths)]

defaultSettings == [rrQuantum |-> Dec(20), mlfqLevels |-> <<Dec(20), Dec(40), Dec(80)>>]

QuantumInputs == {Word, Blank, Dec(0 - 10), Dec(10), Dec(20)}
LevelInputs == {<<>>, <<Dec(0), Word>>, <<Dec(10)>>, <<Dec(5), Word, Dec(10)>>}

algorithmOptions ==
  {"fcfs", "sjfNonPreemptive", "sjfPreemptive", "priorityNonPreemptive",
   "priorityPreemptive", "roundRobin", "mlfq"}

\* a stored process: handleAddProcess keeps Number(arrival), Number(burst), Number(priority)
NewProcess(id, a, b, pr) ==
  [id |-> id, arrival |-> Decimal(a), burst |-> Decimal(b), priority |-> pr]

Workloads(prios) ==
  UNION {[1..n -> ArrivalTenths \X BurstTenths \X prios] : n \in 1..MaxProcs}

ProcessList(w) == [i \in DOMAIN w |-> NewProcess(i, w[i][1], w[i][2], w[i][3])]

(* ------------------------ scheduling: helpers ------------------------- *)
prepareProcesses(procs) ==
  [i \in DOMAIN procs |->
     [id |-> procs[i].id, order |-> i - 1, arrival |-> procs[i].arrival,
      burst |-> procs[i].burst, priority |-> procs[i].priority]]

sortByArrival(a, b) ==
  IF a.arrival = b.arrival THEN a.order - b.order ELSE FSub(a.arrival, b.arrival)

\* mutant: the tie-break called with its arguments swapped
compareByBurstSwapped(a, b) ==
  IF a.burst = b.burst THEN sortByArrival(b, a) ELSE FSub(a.burst, b.burst)

compareByBurst(a, b) ==
  IF a.burst = b.burst THEN sortByArrival(a, b) ELSE FSub(a.burst, b.burst)

compareByPriority(a, b) ==
  IF a.priority = b.priority THEN sortByArrival(a, b) ELSE a.priority - b.priority

compareByRemaining(a, b) ==
  IF a.remaining = b.remaining THEN sortByArrival(a, b) ELSE FSub(a.remaining, b.remaining)

\* the comparator each strategy passes (schedulingStrategies)
Comparator(alg, a, b) ==
  CASE alg = "sjfNonPreemptive" -> compareByBurst(a, b)
    [] alg = "sjfPreemptive" -> compareByRemaining(a, b)
    [] OTHER -> compareByPriority(a, b)

Indices(d) == [i \in 1..Len(d) |-> i]

\* indices of d sorted by arrival, then input order
ByArrival(d) == SortSeq(Indices(d), LAMBDA i, j : sortByArrival(d[i], d[j]) < 0)

\* mutant: turnaround measured from the start, not from the arrival
EntryFromStart(p, startTime, completionTime) ==
  LET turnaroundTime == FSub(completionTime, startTime)
      waitingTime == FSub(turnaroundTime, p.burst)
  IN [id |-> p.id, order |-> p.order, arrival |-> p.arrival, burst |-> p.burst,
      priority |-> p.priority, startTime |-> startTime,
      completionTime |-> completionTime, waitingTime |-> waitingTime,
      turnaroundTime |-> turnaroundTime]

\* a schedule entry: the process with its four derived fields
Entry(p, startTime, completionTime) ==
  LET turnaroundTime == FSub(completionTime, p.arrival)
      waitingTime == FSub(turnaroundTime, p.burst)
  IN [id |-> p.id, order |-> p.order, arrival |-> p.arrival, burst |-> p.burst,
      priority |-> p.priority, startTime |-> startTime,
      completionTime |-> completionTime, waitingTime |-> waitingTime,
      turnaroundTime |-> turnaroundTime]

RECURSIVE FcfsFrom(_, _, _, _)
FcfsFrom(d, sorted, k, currentTime) ==
  IF k > Len(sorted) THEN <<>>
  ELSE LET p == d[sorted[k]]
           startTime == Max(p.arrival, currentTime)
           completionTime == FAdd(startTime, p.burst)
       IN <<Entry(p, startTime, completionTime)>>
            \o FcfsFrom(d, sorted, k + 1, completionTime)

\* variant: every process starts at its arrival, whatever is running
runFcfsAtArrival(procs) ==
  LET d == prepareProcesses(procs)
      sorted == ByArrival(d)
  IN [k \in DOMAIN sorted |->
        Entry(d[sorted[k]], d[sorted[k]].arrival,
              FAdd(d[sorted[k]].arrival, d[sorted[k]].burst))]

runFcfs(procs) ==
  LET d == prepareProcesses(procs) IN FcfsFrom(d, ByArrival(d), 1, 0)

\* data of runPreemptive / runRoundRobin / runMlfq (level is runMlfq's)
LoopData(procs) ==
  LET d == prepareProcesses(procs)
  IN [i \in DOMAIN d |->
        [id |-> d[i].id, order |-> d[i].order, arrival |-> d[i].arrival,
         burst |-> d[i].burst, priority |-> d[i].priority,
         remaining |-> d[i].burst, level |-> 0,
         startTime |-> Null, completionTime |-> Null]]

\* mutant: the filter keeps every finite number, positive or not
parseMlfqLevelsFinite(value) ==
  IF value = <<>> THEN <<>>
  ELSE LET nums == [i \in DOMAIN value |-> NumberOf(value[i])]
           kept == SelectSeq(nums, LAMBDA x : ~x.nan)
       IN [i \in DOMAIN kept |-> kept[i].val]

parseMlfqLevels(value) ==
  IF value = <<>> THEN <<>>
  ELSE LET nums == [i \in DOMAIN value |-> NumberOf(value[i])]
           kept == SelectSeq(nums, LAMBDA x : ~x.nan /\ x.val > 0)
       IN [i \in DOMAIN kept |-> kept[i].val]

\* the sort of runSelectedAlgorithm: by start, then arrival, then id
OrderedSchedule(schedule) ==
  SortSeq(schedule, LAMBDA a, b :
            IF a.startTime = b.startTime
            THEN IF a.arrival = b.arrival THEN a.id < b.id ELSE a.arrival < b.arrival
            ELSE a.startTime < b.startTime)

(* ------------------------------- state -------------------------------- *)
VARIABLES
  processes, selectedAlgorithm, settings, results, runError,  \* React state
  pc,                  \* position inside runSelectedAlgorithm: idle, loop, done
  data, pending, ready, queues, schedule, time,               \* locals of the run
  current, runTime, queueIndex                                \* locals of one iteration

schedVars == <<processes, selectedAlgorithm, settings, results, runError, pc, data,
               pending, ready, queues, schedule, time, current, runTime, queueIndex>>

\* FitAlgorithm.js: React state, and the clock Date.now() reads
VARIABLES blocks, fitAlgorithm, nextFitStart, pidCounter, now

fitVars == <<blocks, fitAlgorithm, nextFitStart, pidCounter, now>>

\* MftMvt (BanksAlgorithm.js): React state; mftLog is the newest entry of log
VARIABLES mode, memorySize, partitionSize, segments, mftPidCounter, freeTarget, mftLog

mftVars == <<mode, memorySize, partitionSize, segments, mftPidCounter, freeTarget,
             mftLog>>

\* the locals of a call of buildMft under way (remaining, id, parts), for the
\* specification that follows the loop of buildMft turn by turn; the handlers
\* of the other specifications run buildMft to its end within their step
VARIABLE building

\* PageReplacement.js: the form, the stored results, and one call of simulate:
\* its position (refs: the forEach, hand: a victim search, done), its locals
\* (sim) and the hand (p) of findClock / findWSClock
VARIABLES refs, framesCount, pageAlgorithm, pageResults, pagePc, sim, hand

pageVars == <<refs, framesCount, pageAlgorithm, pageResults, pagePc, sim, hand>>

\* BanksAlgorithm (BanksAlgorithm.js): React state; bankAvailable is available.
\* The request form is read when Submit Request is pressed.
VARIABLES maxMatrix, allocation, bankAvailable, message

bankVars == <<maxMatrix, allocation, bankAvailable, message>>

\* DiskScheduling: the requests text as its numeric tokens, the head, the
\* direction, the algorithm and the result of the last run
VARIABLES requestsInput, diskHead, direction, diskAlgorithm, diskResult

diskVars == <<requestsInput, diskHead, direction, diskAlgorithm, diskResult>>

\* FileAllocations (kept in src/README.md): disk and the newest entry of log.
\* The form (strategy, file size, index blocks) is read when Allocate is
\* pressed.  placedBy and fileCounter are history variables, not state of the
\* program: placedBy[i] is the number of the allocate call that placed block
\* i (0 for none), fileCounter the number of calls that placed blocks
VARIABLES disk, fileLog, placedBy, fileCounter

fileVars == <<disk, fileLog, placedBy, fileCounter>>

\* one call of checkSafety: its arguments as the call leaves them, and what it
\* returned
VARIABLES safetyArgs, safetyReturned

\* ProcessSynchronization.js: React state; syncLog is the newest entry of log
\* without its number, syncStep is step
VARIABLES bufferSize, items, syncLog, syncStep

syncVars == <<bufferSize, items, syncLog, syncStep>>

\* the dining philosophers (kept in BanksAlgorithm.js): forks, and where each
\* call of philosopherLife waits; console is the last line written
VARIABLES forks, philosophers, console

diningVars == <<forks, philosophers, console>>

tableVars == <<safetyArgs, safetyReturned, syncVars, diningVars>>

exceptSync == <<schedVars, fitVars, mftVars, pageVars, bankVars, diskVars, fileVars,
               building, safetyArgs, safetyReturned, diningVars>>

vars == <<schedVars, fitVars, mftVars, pageVars, bankVars, diskVars, fileVars,
         building, tableVars>>

\* what the handlers of one component leave alone: the other components
exceptSched == <<fitVars, mftVars, pageVars, bankVars, diskVars, fileVars,
                 building, tableVars>>
exceptFit == <<schedVars, mftVars, pageVars, bankVars, diskVars, fileVars,
               building, tableVars>>
exceptMft == <<schedVars, fitVars, pageVars, bankVars, diskVars, fileVars,
               building, tableVars>>
exceptPage == <<schedVars, fitVars, mftVars, bankVars, diskVars, fileVars,
                building, tableVars>>
exceptBank == <<schedVars, fitVars, mftVars, pageVars, diskVars, fileVars,
                building, tableVars>>
exceptDisk == <<schedVars, fitVars, mftVars, pageVars, bankVars, fileVars,
                building, tableVars>>
exceptFile == <<schedVars, fitVars, mftVars, pageVars, bankVars, diskVars,
                building, tableVars>>

\* results = null
NoResults == <<>>

(* ------------------------------ Fit engine ---------------------------- *)
MemorySize == 200

initialBlocks == <<[id |-> 1, label |-> "Free", size |-> MemorySize, free |-> TRUE,
                    requested |-> 0]>>

\* FitAlgorithm's useState initial values
FitInit ==
  /\ blocks = initialBlocks
  /\ fitAlgorithm = "first"
  /\ nextFitStart = 0
  /\ pidCounter = 1
  /\ now = StartClock

(* ------------------------ MftMvt: construction ------------------------ *)
modes == {"mft", "mvt"}
defaultMemory == 200
defaultPartition == 50

\* Date.now(): some reading of the wall clock
ClockReadings == {StartClock, StartClock + 1}

RECURSIVE buildMftFrom(_, _, _, _)
\* the while loop of buildMft
buildMftFrom(remaining, partition, id, parts) ==
  IF remaining > 0
  THEN LET size == Min(partition, remaining)
       IN buildMftFrom(remaining - size, partition, id + 1,
                       Append(parts, [id |-> id, size |-> size, free |-> TRUE,
                                      label |-> "Free", requested |-> 0]))
  ELSE parts

buildMft(memory, partition) == buildMftFrom(memory, partition, 1, <<>>)

buildMvt(memory) ==
  <<[id |-> 1, size |-> memory, free |-> TRUE, label |-> "Free", requested |-> 0]>>

\* no call of buildMft is under way
NoBuild == [pc |-> "idle", remaining |-> 0, id |-> 1, parts |-> <<>>]

\* MftMvt's useState initial values; freeTarget null and '' are both "no target"
MftInit ==
  /\ mode = "mft"
  /\ memorySize = defaultMemory
  /\ partitionSize = defaultPartition
  /\ segments = buildMft(defaultMemory, defaultPartition)
  /\ mftPidCounter = 1
  /\ freeTarget = ""
  /\ mftLog = "Initialized MFT with 4 partitions of size 50."
  /\ building = NoBuild

(* --------------------- PageReplacement: construction ------------------ *)
defaultRef == <<7, 0, 1, 2, 0, 3, 0, 4, 2, 3, 0, 3, 2>>
defaultFrames == 3

\* the locals of simulate before the first reference; an empty frame is Null
NewSim(n) ==
  [frames |-> [k \in 1..n |-> Null],
   meta |-> [k \in 1..n |-> [ref |-> 0, lastUsed |-> 0 - 1]],
   pointer |-> 0, hits |-> 0, faults |-> 0, timeline |-> <<>>]

\* a call of simulate about to take its first reference
Simulating ==
  /\ pageResults = NoResults
  /\ pagePc = "refs"
  /\ sim = NewSim(framesCount)
  /\ hand = 0

\* PageReplacement's useState initial values, and the first run under way
PageConstructed ==
  /\ refs = defaultRef
  /\ framesCount = defaultFrames
  /\ pageAlgorithm = "fifo"
  /\ Simulating

(* --------------------- BanksAlgorithm: construction ------------------- *)
sampleMax == <<<<7, 5, 3>>, <<3, 2, 2>>, <<9, 0, 2>>, <<2, 2, 2>>, <<4, 3, 3>>>>
sampleAllocation == <<<<0, 1, 0>>, <<2, 0, 0>>, <<3, 0, 2>>, <<2, 1, 1>>, <<0, 0, 2>>>>
sampleAvailable == <<3, 3, 2>>

\* BanksAlgorithm's useState initial values, which handleReset restores
BankInit ==
  /\ maxMatrix = sampleMax
  /\ allocation = sampleAllocation
  /\ bankAvailable = sampleAvailable
  /\ message = ""

(* --------------------- DiskScheduling: construction ------------------- *)
diskAlgorithmOptions == {"fcfs", "sstf", "scan", "cscan", "look", "clook"}
defaultRequests == <<98, 183, 37, 122, 14, 124, 65, 67>>
maxCyl == 199
defaultHead == 53

Abs(n) == IF n >= 0 THEN n ELSE 0 - n

\* variant: the list is left in its order
Unreversed(s) == s

Reverse(s) == [k \in 1..Len(s) |-> s[Len(s) + 1 - k]]

RECURSIVE SortAsc(_)
\* sort((a, b) => a - b)
SortAsc(s) ==
  IF s = <<>> THEN <<>>
  ELSE LET rest == SortAsc(Tail(s))
           below == Cardinality({k \in DOMAIN rest : rest[k] <= Head(s)})
       IN SubSeq(rest, 1, below) \o <<Head(s)>> \o SubSeq(rest, below + 1, Len(rest))

\* the numbers among the tokens that lie in 0..max
parseRequests(input, max) ==
  LET InRange(num) == num >= 0 /\ num <= max
  IN SelectSeq(input, InRange)

RECURSIVE BestIdxSigned(_, _, _, _)
\* variant: the distance is taken without Math.abs
BestIdxSigned(cur, pendingReqs, i, bestIdx) ==
  IF i > Len(pendingReqs) THEN bestIdx
  ELSE IF pendingReqs[i] - cur < pendingReqs[bestIdx] - cur
       THEN BestIdxSigned(cur, pendingReqs, i + 1, i)
       ELSE BestIdxSigned(cur, pendingReqs, i + 1, bestIdx)

RECURSIVE BestIdxFrom(_, _, _, _)
\* the for loop of sstf from index i (1-based) on: the first index of pending
\* nearest to current
BestIdxFrom(cur, pendingReqs, i, bestIdx) ==
  IF i > Len(pendingReqs) THEN bestIdx
  ELSE IF Abs(pendingReqs[i] - cur) < Abs(pendingReqs[bestIdx] - cur)
       THEN BestIdxFrom(cur, pendingReqs, i + 1, i)
       ELSE BestIdxFrom(cur, pendingReqs, i + 1, bestIdx)

RECURSIVE SstfFrom(_, _, _)
\* while (pending.length)
SstfFrom(cur, pendingReqs, visited) ==
  IF pendingReqs = <<>> THEN visited
  ELSE LET bestIdx == BestIdxFrom(cur, pendingReqs, 2, 1)
           next == pendingReqs[bestIdx]
       IN SstfFrom(next,
                   SubSeq(pendingReqs, 1, bestIdx - 1)
                     \o SubSeq(pendingReqs, bestIdx + 1, Len(pendingReqs)),
                   Append(visited, next))

sstf(hd, reqs) == SstfFrom(hd, reqs, <<>>)

orderRequests(alg, hd, dir, reqs) ==
  LET Below(r) == r < hd
      AtOrAbove(r) == r >= hd
      lower == SortAsc(SelectSeq(reqs, Below))
      upper == SortAsc(SelectSeq(reqs, AtOrAbove))
  IN CASE alg = "fcfs" -> reqs
       [] alg = "sstf" -> sstf(hd, reqs)
       [] alg = "scan" ->
            IF dir = "right" THEN upper \o <<maxCyl>> \o Reverse(lower)
            ELSE Reverse(lower) \o <<0>> \o upper
       [] alg = "cscan" ->
            IF dir = "right" THEN upper \o <<maxCyl, 0>> \o lower
            ELSE Reverse(lower) \o <<0, maxCyl>> \o Reverse(upper)
       [] alg = "look" ->
            IF dir = "right" THEN upper \o Reverse(lower) ELSE Reverse(lower) \o upper
       [] alg = "clook" ->
            IF dir = "right" THEN upper \o lower ELSE Reverse(lower) \o Reverse(upper)
       [] OTHER -> reqs

RECURSIVE TimelineFrom(_, _, _, _)
\* the for loop of simulate from index i of path (0-based) on
TimelineFrom(path, i, total, steps) ==
  IF i >= Len(path) THEN [timeline |-> steps, total |-> total]
  ELSE LET move == Abs(path[i + 1] - path[i])
       IN TimelineFrom(path, i + 1, total + move,
                       Append(steps, [index |-> i - 1, position |-> path[i + 1],
                                      move |-> move, cumulative |-> total + move]))

\* simulate of DiskScheduling
diskSimulate(alg, hd, dir, reqs) ==
  LET visitOrder == orderRequests(alg, hd, dir, reqs)
      path == <<hd>> \o visitOrder
      looped == TimelineFrom(path, 1, 0, <<>>)
  IN [path |-> path, timeline |-> looped.timeline, total |-> looped.total,
      served |-> Len(visitOrder)]

\* runSimulation: the result of the inputs as they are
Simulated ==
  diskResult = diskSimulate(diskAlgorithm, diskHead, direction,
                            parseRequests(requestsInput, maxCyl))

\* DiskScheduling's useState initial values, and the run of the first render
DiskInit ==
  /\ requestsInput = defaultRequests
  /\ diskHead = defaultHead
  /\ direction = "right"
  /\ diskAlgorithm = "fcfs"
  /\ Simulated

(* --------------------- FileAllocations: construction ------------------ *)
\* the number of blocks of the disk (48 in the source)
totalBlocks == 4

FreeLabel == <<"Free", 0>>
IndexLabel == <<"Index", 0>>
\* `F${block.id}`
FileLabel(id) == <<"F", id>>

\* the disks buildInitialDisk can return: Math.random() decides block by
\* block whether it is free; every label is 'Free'
buildInitialDisk ==
  {[idx \in 1..totalBlocks |-> [id |-> idx, free |-> f[idx], label |-> FreeLabel]] :
     f \in [1..totalBlocks -> BOOLEAN]}

\* FileAllocations' useState initial values
FileInit ==
  /\ disk \in buildInitialDisk
  /\ fileLog = "Initialized disk with some blocks in use."
  /\ placedBy = [idx \in 1..totalBlocks |-> 0]
  /\ fileCounter = 0

\* FileAllocations as built when every draw of buildInitialDisk left the
\* block free
FileBuilt ==
  /\ FileInit
  /\ \A idx \in DOMAIN disk : disk[idx].free

(* ------------- checkSafety, ProcessSynchronization, philosophers ------- *)
\* no call of checkSafety has been made
SafetyIdle ==
  /\ safetyArgs = <<>>
  /\ safetyReturned = <<>>

\* bufferSize, items and the capacity typed are Numbers, counted in halves
Half == 2

\* ProcessSynchronization's useState initial values, which handleReset restores
SyncInit ==
  /\ bufferSize = 5 * Half
  /\ items = 2 * Half
  /\ syncLog = [text |-> "Initialized buffer with 2 items.", waited |-> 0, signalled |-> 0]
  /\ syncStep = 1

NUM_PHILOSOPHERS == 5

\* the starting loop has called philosopherLife(0..4), each up to its first
\* await: every fork is available and every philosopher is thinking
DiningInit ==
  /\ forks = [f \in 0..(NUM_PHILOSOPHERS - 1) |-> TRUE]
  /\ philosophers = [id \in 0..(NUM_PHILOSOPHERS - 1) |-> "thinking"]
  /\ console = [id |-> NUM_PHILOSOPHERS - 1, line |-> "is thinking..."]

\* the three as built
TableBuilt == SafetyIdle /\ SyncInit /\ DiningInit

quantum == NumberOf(settings.rrQuantum)
levels == parseMlfqLevels(settings.mlfqLevels)
\* variant: no level beyond the quanta supplied
quantumsSupplied == levels

\* const quantums = [...levels, Infinity]
quantums == Append(levels, Infinity)

\* how many leading entries of the arrival-sorted list p have arrived by t
Arrived(d, p, t) ==
  IF \E k \in 1..Len(p) : d[p[k]].arrival > t
  THEN (CHOOSE k \in 1..Len(p) :
          d[p[k]].arrival > t /\ \A j \in 1..(k - 1) : d[p[j]].arrival <= t) - 1
  ELSE Len(p)

Drop(s, n) == SubSeq(s, n + 1, Len(s))

\* reduce((min, p) => Math.min(min, p.arrival), Infinity) over the processes in S
MinArrival(d, S) ==
  IF S = {} THEN Infinity
  ELSE CHOOSE a \in {d[i].arrival : i \in S} : \A i \in S : a <= d[i].arrival

initialProcesses ==
  <<[id |-> 1, arrival |-> 0, burst |-> 4 * Unit, priority |-> 2],
    [id |-> 2, arrival |-> Unit, burst |-> 3 * Unit, priority |-> 1],
    [id |-> 3, arrival |-> 2 * Unit, burst |-> 5 * Unit, priority |-> 3]>>

\* before Run is pressed: no results, no error, no run in progress
NoRun ==
  /\ results = NoResults
  /\ runError = ""
  /\ pc = "idle"
  /\ data = <<>> /\ pending = <<>> /\ ready = <<>> /\ queues = <<>>
  /\ schedule = <<>> /\ time = 0
  /\ current = 0 /\ runTime = 0 /\ queueIndex = 0

\* ProcessScheduling's useState initial values
SchedConstructed ==
  /\ processes = initialProcesses
  /\ selectedAlgorithm = "fcfs"
  /\ settings = defaultSettings
  /\ NoRun

\* a process list, an algorithm and its settings as the forms can leave them
SchedInit ==
  /\ FitInit
  /\ MftInit
  /\ PageConstructed
  /\ BankInit
  /\ DiskInit
  /\ FileBuilt
  /\ TableBuilt
  /\ selectedAlgorithm \in algorithmOptions
  /\ \E w \in Workloads(IF selectedAlgorithm \in {"priorityNonPreemptive", "priorityPreemptive"}
                        THEN Priorities ELSE {1}) :
       processes = ProcessList(w)
  /\ \E q \in (IF selectedAlgorithm = "roundRobin" THEN QuantumInputs
               ELSE {defaultSettings.rrQuantum}),
        l \in (IF selectedAlgorithm = "mlfq" THEN LevelInputs
               ELSE {defaultSettings.mlfqLevels}) :
       settings = [rrQuantum |-> q, mlfqLevels |-> l]
  /\ NoRun

\* the strategy threw: the catch of runSelectedAlgorithm
Reject(errorMessage) ==
  /\ runError' = errorMessage
  /\ results' = NoResults
  /\ pc' = "done"
  /\ UNCHANGED <<data, pending, ready, queues, schedule, time>>

\* the strategy starts its loop
Enter(d, p, q, t) ==
  /\ data' = d /\ pending' = p /\ ready' = <<>> /\ queues' = q
  /\ schedule' = <<>> /\ time' = t
  /\ runError' = "" /\ pc' = "loop"
  /\ UNCHANGED results

\* runSelectedAlgorithm up to the first iteration of the strategy's loop
RunSelectedAlgorithm ==
  /\ pc = "idle"
  /\ UNCHANGED exceptSched
  /\ UNCHANGED <<processes, selectedAlgorithm, settings, current, runTime, queueIndex>>
  /\ LET d == LoopData(processes)
         sorted == ByArrival(d)
         first == IF Len(sorted) > 0 THEN d[sorted[1]].arrival ELSE 0
     IN CASE Len(processes) = 0 ->
               /\ runError' = "" /\ results' = NoResults /\ pc' = "done"
               /\ UNCHANGED <<data, pending, ready, queues, schedule, time>>
          [] Len(processes) > 0 /\ selectedAlgorithm = "fcfs" ->
               /\ results' = OrderedSchedule(runFcfs(processes))
               /\ runError' = "" /\ pc' = "done"
               /\ UNCHANGED <<data, pending, ready, queues, schedule, time>>
          [] Len(processes) > 0 /\ selectedAlgorithm = "roundRobin" ->
               IF quantum.nan \/ ~IsFinite(quantum.val) \/ quantum.val <= 0
               THEN Reject("Provide a positive time quantum for Round Robin.")
               ELSE Enter(d, sorted, <<>>, first)
          [] Len(processes) > 0 /\ selectedAlgorithm = "mlfq" ->
               IF Len(levels) = 0
               THEN Reject("Enter at least one time quantum for MLFQ (e.g. 2,4,8).")
               ELSE Enter(d, sorted, [i \in 1..Len(quantums) |-> <<>>], first)
          [] Len(processes) > 0
               /\ selectedAlgorithm \in {"sjfPreemptive", "priorityPreemptive"} ->
               Enter(d, <<>>, <<>>, MinArrival(d, DOMAIN d))
          [] OTHER -> Enter(d, sorted, <<>>, first)

Looping(algs) == pc = "loop" /\ selectedAlgorithm \in algs

\* mutant: every slice lasts the whole quantum
SliceLengthFull(q, remaining) == q

\* Math.min(quantum, current.remaining)
SliceLength(q, remaining) == Min(q, remaining)

\* mutant: the preempted process re-enters ahead of the slice's arrivals
RequeueFirst(queue, arrivals, cur, left) ==
  IF left > 0 THEN Append(queue, cur) \o arrivals ELSE queue \o arrivals

\* mutant: the preempted process is not queued again
RequeueDropped(queue, arrivals, cur, left) == queue \o arrivals

\* the queue after a slice: the arrivals of the slice, then the preempted process
Requeue(queue, arrivals, cur, left) ==
  IF left > 0 THEN Append(queue \o arrivals, cur) ELSE queue \o arrivals

\* mutant: no demotion
SameLevel(qi, n) == qi

\* Math.min(queueIndex + 1, queues.length - 1), 1-based
NextLevel(qi, n) == Min(qi + 1, n)

\* one iteration of the while loop of runNonPreemptive
NonPreemptiveStep ==
  /\ Looping({"sjfNonPreemptive", "priorityNonPreemptive"})
  /\ UNCHANGED exceptSched
  /\ pending # <<>>
  /\ LET currentTime == time
         available == SelectSeq(pending, LAMBDA i : data[i].arrival <= currentTime)
         sorted == SortSeq(available, LAMBDA i, j :
                             Comparator(selectedAlgorithm, data[i], data[j]) < 0)
         nextProcess == sorted[1]
         startTime == Max(currentTime, data[nextProcess].arrival)
         completionTime == FAdd(startTime, data[nextProcess].burst)
     IN IF available = <<>>
        THEN /\ time' = data[pending[1]].arrival
             /\ UNCHANGED <<pending, schedule, current>>
        ELSE /\ pending' = SelectSeq(pending, LAMBDA i : i # nextProcess)
             /\ schedule' = Append(schedule,
                                   Entry(data[nextProcess], startTime, completionTime))
             /\ time' = completionTime
             /\ current' = nextProcess
  /\ UNCHANGED <<processes, selectedAlgorithm, settings, results, runError, pc,
                 data, ready, queues, runTime, queueIndex>>

Unfinished(d) == {i \in DOMAIN d : d[i].remaining > 0}

\* one iteration of the while loop of runPreemptive
PreemptiveStep ==
  /\ Looping({"sjfPreemptive", "priorityPreemptive"})
  /\ UNCHANGED exceptSched
  /\ Unfinished(data) # {}
  /\ LET currentTime == time
         available == SelectSeq(Indices(data), LAMBDA i :
                        data[i].arrival <= currentTime /\ data[i].remaining > 0)
         sorted == SortSeq(available, LAMBDA i, j :
                             Comparator(selectedAlgorithm, data[i], data[j]) < 0)
         cur == sorted[1]
         nextArrival == MinArrival(data, {i \in Unfinished(data) :
                                            data[i].arrival > currentTime})
         finishTime == FAdd(currentTime, data[cur].remaining)
         nextTime == IF IsFinite(nextArrival) /\ nextArrival < finishTime
                     THEN nextArrival ELSE finishTime
         elapsed == FSub(nextTime, currentTime)
         left == FSub(data[cur].remaining, elapsed)
     IN IF available = <<>>
        THEN \* the break on a non-finite next arrival cannot be taken here:
             \* some process is unfinished, so the minimum is an arrival
             /\ time' = MinArrival(data, Unfinished(data))
             /\ UNCHANGED <<data, current, runTime>>
        ELSE /\ data' = [data EXCEPT
                  ![cur].startTime = IF @ = Null THEN currentTime ELSE @,
                  ![cur].remaining = left,
                  ![cur].completionTime = IF left = 0 THEN nextTime ELSE @]
             /\ time' = nextTime
             /\ current' = cur
             /\ runTime' = elapsed
  /\ UNCHANGED <<processes, selectedAlgorithm, settings, results, runError, pc,
                 pending, ready, queues, schedule, queueIndex>>

\* one iteration of the while loop of runRoundRobin
RoundRobinStep ==
  /\ Looping({"roundRobin"})
  /\ UNCHANGED exceptSched
  /\ ready # <<>> \/ pending # <<>>
  /\ LET n1 == Arrived(data, pending, time)
         ready1 == ready \o SubSeq(pending, 1, n1)
         pending1 == Drop(pending, n1)
         cur == Head(ready1)
         run == SliceLength(quantum.val, data[cur].remaining)
         left == FSub(data[cur].remaining, run)
         time2 == FAdd(time, run)
         n2 == Arrived(data, pending1, time2)
     IN IF ready1 = <<>>
        THEN /\ time' = data[pending1[1]].arrival
             /\ UNCHANGED <<data, pending, ready, current, runTime>>
        ELSE /\ data' = [data EXCEPT
                  ![cur].startTime = IF @ = Null THEN time ELSE @,
                  ![cur].remaining = left,
                  ![cur].completionTime = IF left > 0 THEN @ ELSE time2]
             /\ time' = time2
             /\ pending' = Drop(pending1, n2)
             /\ ready' = Requeue(Tail(ready1), SubSeq(pending1, 1, n2), cur, left)
             /\ current' = cur
             /\ runTime' = run
  /\ UNCHANGED <<processes, selectedAlgorithm, settings, results, runError, pc,
                 queues, schedule, queueIndex>>

hasWork == pending # <<>> \/ \E k \in DOMAIN queues : queues[k] # <<>>

\* queues.findIndex((queue) => queue.length), 1-based; 0 for -1
FirstQueue(qs) ==
  IF \E k \in DOMAIN qs : qs[k] # <<>>
  THEN CHOOSE k \in DOMAIN qs : qs[k] # <<>> /\ \A j \in 1..(k - 1) : qs[j] = <<>>
  ELSE 0

\* one iteration of the while loop of runMlfq
MlfqStep ==
  /\ Looping({"mlfq"})
  /\ UNCHANGED exceptSched
  /\ hasWork
  /\ LET n1 == Arrived(data, pending, time)
         data1 == [i \in DOMAIN data |->
                     IF \E k \in 1..n1 : pending[k] = i
                     THEN [data[i] EXCEPT !.level = 0] ELSE data[i]]
         queues1 == [queues EXCEPT ![1] = @ \o SubSeq(pending, 1, n1)]
         pending1 == Drop(pending, n1)
         qi == FirstQueue(queues1)
         cur == Head(queues1[qi])
         run == SliceLength(quantums[qi], data1[cur].remaining)
         left == FSub(data1[cur].remaining, run)
         time2 == FAdd(time, run)
         n2 == Arrived(data, pending1, time2)
         queues2 == [queues1 EXCEPT ![qi] = Tail(@)]
         queues3 == [queues2 EXCEPT ![1] = @ \o SubSeq(pending1, 1, n2)]
         nextLevel == NextLevel(qi, Len(queues))
         data2 == [i \in DOMAIN data1 |->
                     IF \E k \in 1..n2 : pending1[k] = i
                     THEN [data1[i] EXCEPT !.level = 0] ELSE data1[i]]
     IN IF qi = 0
        THEN /\ time' = IF pending1 # <<>> THEN data[pending1[1]].arrival ELSE time
             /\ UNCHANGED <<data, pending, queues, current, runTime, queueIndex>>
        ELSE /\ data' = [data2 EXCEPT
                  ![cur].startTime = IF @ = Null THEN time ELSE @,
                  ![cur].remaining = left,
                  ![cur].level = IF left > 0 THEN nextLevel - 1 ELSE @,
                  ![cur].completionTime = IF left > 0 THEN @ ELSE time2]
             /\ time' = time2
             /\ pending' = Drop(pending1, n2)
             /\ queues' = IF left > 0
                          THEN [queues3 EXCEPT ![nextLevel] = Append(@, cur)]
                          ELSE queues3
             /\ current' = cur
             /\ runTime' = run
             /\ queueIndex' = qi
  /\ UNCHANGED <<processes, selectedAlgorithm, settings, results, runError, pc,
                 ready, schedule>>

\* the loop condition of the running strategy
LoopCondition ==
  CASE selectedAlgorithm \in {"sjfNonPreemptive", "priorityNonPreemptive"} -> pending # <<>>
    [] selectedAlgorithm \in {"sjfPreemptive", "priorityPreemptive"} -> Unfinished(data) # {}
    [] selectedAlgorithm = "roundRobin" -> ready # <<>> \/ pending # <<>>
    [] OTHER -> hasWork

\* the data.map that ends runPreemptive, runRoundRobin and runMlfq
FinalMap(d, preemptive) ==
  [i \in DOMAIN d |->
     Entry(d[i],
           IF d[i].startTime = Null THEN d[i].arrival ELSE d[i].startTime,
           IF d[i].completionTime # Null THEN d[i].completionTime
           ELSE IF preemptive THEN FAdd(d[i].arrival, Max(d[i].remaining, 0))
           ELSE FAdd(d[i].arrival, d[i].burst))]

\* what the strategy returns once its loop has ended
Returned ==
  CASE selectedAlgorithm \in {"sjfNonPreemptive", "priorityNonPreemptive"} -> schedule
    [] selectedAlgorithm \in {"sjfPreemptive", "priorityPreemptive"} -> FinalMap(data, TRUE)
    [] OTHER -> FinalMap(data, FALSE)

\* the strategy returns; runSelectedAlgorithm orders the schedule and stores it
ReturnSchedule ==
  /\ pc = "loop"
  /\ ~LoopCondition
  /\ UNCHANGED exceptSched
  /\ results' = OrderedSchedule(Returned)
  /\ pc' = "done"
  /\ UNCHANGED <<processes, selectedAlgorithm, settings, runError, data, pending,
                 ready, queues, schedule, time, current, runTime, queueIndex>>

SchedNext ==
  \/ RunSelectedAlgorithm
  \/ NonPreemptiveStep
  \/ PreemptiveStep
  \/ RoundRobinStep
  \/ MlfqStep
  \/ ReturnSchedule

SpecSched == SchedInit /\ [][SchedNext]_vars

\* the while loops of runRoundRobin and runMlfq are plain loops of one call:
\* once entered they keep taking their turns, and the call returns
SpecSchedLive ==
  SchedInit /\ [][SchedNext]_vars /\ WF_vars(RoundRobinStep \/ MlfqStep \/ ReturnSchedule)

(* ------------------------- Fit engine: operations --------------------- *)
RequestSizes == {40, 60, 100}
algorithms == {"first", "best", "worst", "next"}

\* mutant: a merged hole takes the size of its last part (= for +=)
RECURSIVE coalesceLast(_, _, _)
coalesceLast(list, i, merged) ==
  IF i > Len(list) THEN merged
  ELSE LET cur == list[i]
           m == Len(merged)
       IN IF cur.free /\ m > 0 /\ merged[m].free
          THEN coalesceLast(list, i + 1, [merged EXCEPT ![m].size = cur.size])
          ELSE coalesceLast(list, i + 1, Append(merged, cur))

RECURSIVE coalesceFrom(_, _, _)
coalesceFrom(list, i, merged) ==
  IF i > Len(list) THEN merged
  ELSE LET cur == list[i]
           m == Len(merged)
       IN IF cur.free /\ m > 0 /\ merged[m].free
          THEN coalesceFrom(list, i + 1,
                            [merged EXCEPT ![m].size = @ + cur.size])
          ELSE coalesceFrom(list, i + 1, Append(merged, cur))

\* mutant: free neighbours are left unmerged
coalesceNone(list) == list

\* merge runs of free blocks; a block without an id gets its position
coalesce(list) ==
  LET merged == coalesceFrom(list, 1, <<>>)
  IN [k \in DOMAIN merged |->
        [merged[k] EXCEPT !.id = IF @ = 0 THEN k ELSE @]]

\* Array.prototype.findIndex over the predicate's value at each position,
\* 0-based; -1 when none
FindIndex(hits) ==
  IF \E k \in DOMAIN hits : hits[k]
  THEN (CHOOSE k \in DOMAIN hits :
          hits[k] /\ \A j \in 1..(k - 1) : ~hits[j]) - 1
  ELSE 0 - 1

Fits(b, size) == b.free /\ b.size >= size

\* the first offset of the circular scan whose block fits; n when none
NextFitOffset(bs, start, size) ==
  LET n == Len(bs)
      hit(o) == Fits(bs[((start + o) % n) + 1], size)
  IN IF \E o \in 0..(n - 1) : hit(o)
     THEN CHOOSE o \in 0..(n - 1) : hit(o) /\ \A o2 \in 0..(o - 1) : ~hit(o2)
     ELSE n

\* variant: Best Fit and Worst Fit break ties towards the highest index
findBlockIndexLastTie(bs, alg, start, size) ==
  LET q == {k \in 0..(Len(bs) - 1) : Fits(bs[k + 1], size)}
      n == Len(bs)
      offset == NextFitOffset(bs, start, size)
  IN IF q = {} THEN 0 - 1
     ELSE CASE alg = "best" ->
                 CHOOSE k \in q : \A j \in q :
                   \/ bs[k + 1].size < bs[j + 1].size
                   \/ bs[k + 1].size = bs[j + 1].size /\ k >= j
            [] alg = "worst" ->
                 CHOOSE k \in q : \A j \in q :
                   \/ bs[k + 1].size > bs[j + 1].size
                   \/ bs[k + 1].size = bs[j + 1].size /\ k >= j
            [] alg = "next" -> (start + offset) % n
            [] OTHER -> CHOOSE k \in q : \A j \in q : k <= j

\* 0-based index of the hole the selected strategy picks; -1 when none
findBlockIndex(bs, alg, start, size) ==
  LET qualifying == SelectSeq([k \in DOMAIN bs |-> k - 1],
                              LAMBDA i : Fits(bs[i + 1], size))
      \* Array.prototype.sort is stable: equal sizes keep index order
      best == SortSeq(qualifying, LAMBDA a, b :
                \/ bs[a + 1].size < bs[b + 1].size
                \/ bs[a + 1].size = bs[b + 1].size /\ a < b)
      worst == SortSeq(qualifying, LAMBDA a, b :
                 \/ bs[a + 1].size > bs[b + 1].size
                 \/ bs[a + 1].size = bs[b + 1].size /\ a < b)
      n == Len(bs)
      offset == NextFitOffset(bs, start, size)
  IN CASE alg = "best" -> IF Len(best) > 0 THEN best[1] ELSE 0 - 1
       [] alg = "worst" -> IF Len(worst) > 0 THEN worst[1] ELSE 0 - 1
       [] alg = "next" -> IF offset < n THEN (start + offset) % n ELSE 0 - 1
       [] OTHER -> FindIndex([k \in DOMAIN bs |-> Fits(bs[k], size)])

\* the block list after the hole at index is replaced by the new block and
\* the remainder, coalesced
Split(bs, index, size, pid, t) ==
  LET target == bs[index + 1]
      remaining == target.size - size
      newBlock == [id |-> t, label |-> "P" \o ToString(pid), size |-> size, free |-> FALSE,
                   requested |-> size]
      rest == [id |-> t + 1, label |-> "Free", size |-> remaining, free |-> TRUE,
               requested |-> 0]
      updated == SubSeq(bs, 1, index)
                   \o (IF remaining > 0 THEN <<newBlock, rest>> ELSE <<newBlock>>)
                   \o SubSeq(bs, index + 2, Len(bs))
  IN coalesce(updated)

\* the value setNextFitStart receives after a Next Fit allocation
NextStart(coalesced) ==
  LET nextIndex == FindIndex([k \in DOMAIN coalesced |-> coalesced[k].free])
  IN IF nextIndex = 0 - 1 THEN 0 ELSE nextIndex

\* the Allocate button, with the value of the Request Size field
allocate(size) ==
  /\ pidCounter <= MaxAllocs
  /\ size > 0
  /\ \E tick \in 0..MaxTick :
       LET t == now + tick
           index == findBlockIndex(blocks, fitAlgorithm, nextFitStart, size)
           coalesced == Split(blocks, index, size, pidCounter, t)
       IN IF index = 0 - 1
          THEN UNCHANGED <<blocks, pidCounter, nextFitStart, now>>
          ELSE /\ now' = t
               /\ blocks' = coalesced
               /\ pidCounter' = pidCounter + 1
               /\ nextFitStart' = IF fitAlgorithm = "next"
                                  THEN NextStart(coalesced) ELSE nextFitStart
  /\ UNCHANGED <<fitAlgorithm, exceptFit>>

\* the Free Selected button, with the block id chosen in the select
freeProcess(chosen) ==
  /\ LET updated == [k \in DOMAIN blocks |->
                       IF blocks[k].id = chosen
                       THEN [blocks[k] EXCEPT !.free = TRUE, !.label = "Free",
                                              !.requested = 0]
                       ELSE blocks[k]]
     IN blocks' = coalesce(updated)
  /\ UNCHANGED <<fitAlgorithm, nextFitStart, pidCounter, now, exceptFit>>

\* the Algorithm select
setSelectedAlgorithm(alg) ==
  /\ fitAlgorithm' = alg
  /\ UNCHANGED <<blocks, nextFitStart, pidCounter, now, exceptFit>>

FitNext ==
  \/ \E size \in RequestSizes : allocate(size)
  \/ \E b \in {blocks[k].id : k \in {j \in DOMAIN blocks : ~blocks[j].free}} :
       freeProcess(b)
  \/ \E alg \in algorithms \ {fitAlgorithm} : setSelectedAlgorithm(alg)

\* the components of the earlier sections as built
CoreBuilt ==
  FitInit /\ SchedConstructed /\ MftInit /\ PageConstructed /\ BankInit
    /\ DiskInit /\ FileBuilt

Constructed == CoreBuilt /\ TableBuilt

SpecFit == Constructed /\ [][FitNext]_vars

(* ------------------------- MftMvt: operations ------------------------- *)
\* values of the Process Size, Memory Size and Partition Size fields
ProcessSizes == {0, 30, 70}
MemorySizes == {120, 200}
PartitionSizes == {50, 80}

RECURSIVE mftCoalesceFrom(_, _, _)
\* the forEach of coalesce (MftMvt): a free segment joins a free predecessor
mftCoalesceFrom(segs, k, merged) ==
  IF k > Len(segs) THEN merged
  ELSE IF segs[k].free /\ Len(merged) > 0 /\ merged[Len(merged)].free
       THEN mftCoalesceFrom(segs, k + 1,
              [merged EXCEPT ![Len(merged)].size = @ + segs[k].size])
       ELSE mftCoalesceFrom(segs, k + 1, Append(merged, segs[k]))

mftCoalesce(segs) == mftCoalesceFrom(segs, 1, <<>>)

\* segments.findIndex(seg => seg.free && seg.size >= size), 0-based
FirstHole(segs, size) ==
  FindIndex([k \in DOMAIN segs |-> segs[k].free /\ segs[k].size >= size])

\* the sum of the sizes of the segments at the positions in S
RECURSIVE SizeOf(_, _)
SizeOf(segs, S) ==
  IF S = {} THEN 0
  ELSE LET k == CHOOSE j \in S : TRUE IN segs[k].size + SizeOf(segs, S \ {k})

FreeAt(segs) == {k \in DOMAIN segs : segs[k].free}

memoryUsed(segs) == SizeOf(segs, DOMAIN segs \ FreeAt(segs))

externalFragmentation(segs, m) ==
  IF m # "mvt" THEN 0
  ELSE IF FreeAt(segs) = {} THEN 0
  ELSE LET totalFree == SizeOf(segs, FreeAt(segs))
           largestHole == CHOOSE h \in {segs[k].size : k \in FreeAt(segs)} :
                            \A k \in FreeAt(segs) : h >= segs[k].size
       IN totalFree - largestHole

\* the effect that follows a change of mode, memorySize or partitionSize
Rebuild(m, memory, partition) ==
  /\ segments' = IF m = "mft" THEN buildMft(memory, partition) ELSE buildMvt(memory)
  /\ mftPidCounter' = 1
  /\ freeTarget' = ""
  /\ mftLog' = IF m = "mft" THEN "Reset to MFT" ELSE "Reset to MVT"

\* the Mode select
setMode(m) ==
  /\ mode' = m
  /\ Rebuild(m, memorySize, partitionSize)
  /\ UNCHANGED <<memorySize, partitionSize, exceptMft>>

\* the Memory Size field
setMemorySize(v) ==
  /\ memorySize' = v
  /\ Rebuild(mode, v, partitionSize)
  /\ UNCHANGED <<mode, partitionSize, exceptMft>>

\* the Partition Size field, shown in MFT mode
setPartitionSize(v) ==
  /\ mode = "mft"
  /\ partitionSize' = v
  /\ Rebuild(mode, memorySize, v)
  /\ UNCHANGED <<mode, memorySize, exceptMft>>

\* the Free Target select: a listed process, or "Select process"
setFreeTarget(label) ==
  /\ freeTarget' = label
  /\ UNCHANGED <<mode, memorySize, partitionSize, segments, mftPidCounter, mftLog,
                 exceptMft>>

\* allocate, MFT branch: the first free partition that fits is marked occupied
AllocateMft(size, pid) ==
  LET idx == FirstHole(segments, size)
  IN IF idx = 0 - 1
     THEN /\ mftLog' = "MFT: no free partition fits"
          /\ UNCHANGED <<segments, mftPidCounter>>
     ELSE /\ segments' = [segments EXCEPT ![idx + 1] =
                            [@ EXCEPT !.free = FALSE, !.label = pid,
                                      !.requested = size]]
          /\ mftPidCounter' = mftPidCounter + 1
          /\ mftLog' = "MFT: allocated"

\* allocate, MVT branch: the first hole that fits is split
AllocateMvt(size, pid, t) ==
  LET idx == FirstHole(segments, size)
      target == segments[idx + 1]
      remaining == target.size - size
      taken == [target EXCEPT !.size = size, !.free = FALSE, !.label = pid,
                              !.requested = size]
      rest == [id |-> t, size |-> remaining, free |-> TRUE, label |-> "Free",
               requested |-> 0]
      updated == SubSeq(segments, 1, idx)
                   \o (IF remaining > 0 THEN <<taken, rest>> ELSE <<taken>>)
                   \o SubSeq(segments, idx + 2, Len(segments))
  IN IF idx = 0 - 1
     THEN /\ mftLog' = "MVT: no hole large enough"
          /\ UNCHANGED <<segments, mftPidCounter>>
     ELSE /\ segments' = mftCoalesce(updated)
          /\ mftPidCounter' = mftPidCounter + 1
          /\ mftLog' = "MVT: allocated"

\* the Allocate button of MftMvt, with the value of the Process Size field
mftAllocate(size) ==
  /\ mftPidCounter <= MaxAllocs
  /\ IF size <= 0
     THEN /\ mftLog' = "Enter a positive process size."
          /\ UNCHANGED <<segments, mftPidCounter>>
     ELSE IF mode = "mft"
          THEN AllocateMft(size, "P" \o ToString(mftPidCounter))
          ELSE \E t \in ClockReadings :
                 AllocateMvt(size, "P" \o ToString(mftPidCounter), t)
  /\ UNCHANGED <<mode, memorySize, partitionSize, freeTarget, exceptMft>>

\* variant: freed segments are merged in both modes
FreedAlwaysMerged(m, updated) == mftCoalesce(updated)

\* freeProcess: const coalesced = mode === 'mvt' ? coalesce(updated) : updated
Freed(m, updated) == IF m = "mvt" THEN mftCoalesce(updated) ELSE updated

\* the Free Selected button of MftMvt, enabled while a process is listed
mftFreeProcess ==
  /\ \E k \in DOMAIN segments : ~segments[k].free
  /\ IF freeTarget = ""
     THEN /\ mftLog' = "Select a process to free."
          /\ UNCHANGED <<segments, freeTarget>>
     ELSE /\ segments' =
               Freed(mode, [k \in DOMAIN segments |->
                              IF segments[k].label = freeTarget
                              THEN [segments[k] EXCEPT
                                      !.free = TRUE, !.label = "Free", !.requested = 0,
                                      !.id = IF @ = 0 THEN k ELSE @]
                              ELSE segments[k]])
          /\ mftLog' = "Freed"
          /\ freeTarget' = ""
  /\ UNCHANGED <<mode, memorySize, partitionSize, mftPidCounter, exceptMft>>

\* variant: the free segments are kept apart behind the allocated ones
CompactedUnmerged(segs, t) ==
  SelectSeq(segs, LAMBDA seg : ~seg.free) \o SelectSeq(segs, LAMBDA seg : seg.free)

\* compact: the allocated segments, then one free segment of the total free size
Compacted(segs, t) ==
  LET allocated == SelectSeq(segs, LAMBDA seg : ~seg.free)
      freeTotal == SizeOf(segs, FreeAt(segs))
  IN IF freeTotal > 0
     THEN Append(allocated, [id |-> t, free |-> TRUE, label |-> "Free",
                             size |-> freeTotal, requested |-> 0])
     ELSE allocated

\* the Compact button
mftCompact ==
  /\ IF mode # "mvt"
     THEN /\ mftLog' = "Compaction applies to MVT only."
          /\ UNCHANGED segments
     ELSE /\ \E t \in ClockReadings : segments' = Compacted(segments, t)
          /\ mftLog' = "Compacted"
  /\ UNCHANGED <<mode, memorySize, partitionSize, mftPidCounter, freeTarget, exceptMft>>

MftNext ==
  \/ \E m \in modes \ {mode} : setMode(m)
  \/ \E v \in MemorySizes \ {memorySize} : setMemorySize(v)
  \/ \E v \in PartitionSizes \ {partitionSize} : setPartitionSize(v)
  \/ \E label \in {""} \cup {segments[k].label : k \in DOMAIN segments \ FreeAt(segments)} :
       setFreeTarget(label)
  \/ \E size \in ProcessSizes : mftAllocate(size)
  \/ mftFreeProcess
  \/ mftCompact

SpecMft == Constructed /\ [][MftNext]_vars

(* ------------------- MftMvt: buildMft turn by turn -------------------- *)
\* the most partitions a call of buildMft is followed for
MaxParts == 4

\* numbers typed into the Memory Size and Partition Size fields; an emptied
\* field is Number('') = 0
MemoryInputs == {0 - 10, 0, 60, 120}
PartitionInputs == {0 - 50, 0, 50, 80}

\* the rebuild effect calls buildMft(memory, partition): let remaining = memorySize
Called(memory) == [pc |-> "loop", remaining |-> memory, id |-> 1, parts |-> <<>>]

\* the Memory Size field in MFT mode: setMemorySize(Number(value)), and the
\* rebuild effect begins
typeMemorySize(v) ==
  /\ mode = "mft" /\ building.pc = "idle"
  /\ memorySize' = v
  /\ building' = Called(v)
  /\ UNCHANGED <<mode, partitionSize, segments, mftPidCounter, freeTarget, mftLog>>
  /\ UNCHANGED <<schedVars, fitVars, pageVars, bankVars, diskVars, fileVars,
               tableVars>>

\* the Partition Size field: setPartitionSize(Number(value)), and the rebuild
\* effect begins
typePartitionSize(v) ==
  /\ mode = "mft" /\ building.pc = "idle"
  /\ partitionSize' = v
  /\ building' = Called(memorySize)
  /\ UNCHANGED <<mode, memorySize, segments, mftPidCounter, freeTarget, mftLog>>
  /\ UNCHANGED <<schedVars, fitVars, pageVars, bankVars, diskVars, fileVars,
               tableVars>>

\* one turn of while (remaining > 0)
buildMftStep ==
  /\ building.pc = "loop" /\ building.remaining > 0
  /\ Len(building.parts) < MaxParts
  /\ LET size == Min(partitionSize, building.remaining)
     IN building' = [pc |-> "loop", remaining |-> building.remaining - size,
                     id |-> building.id + 1,
                     parts |-> Append(building.parts,
                                      [id |-> building.id, size |-> size, free |-> TRUE,
                                       label |-> "Free", requested |-> 0])]
  /\ UNCHANGED <<mftVars, schedVars, fitVars, pageVars, bankVars, diskVars, fileVars,
               tableVars>>

\* return parts, and the rest of the rebuild effect
buildMftReturn ==
  /\ building.pc = "loop" /\ building.remaining <= 0
  /\ segments' = building.parts
  /\ mftPidCounter' = 1
  /\ freeTarget' = ""
  /\ mftLog' = "Reset to MFT"
  /\ building' = NoBuild
  /\ UNCHANGED <<mode, memorySize, partitionSize>>
  /\ UNCHANGED <<schedVars, fitVars, pageVars, bankVars, diskVars, fileVars,
               tableVars>>

MftBuildNext ==
  \/ \E v \in MemoryInputs \ {memorySize} : typeMemorySize(v)
  \/ \E v \in PartitionInputs \ {partitionSize} : typePartitionSize(v)
  \/ buildMftStep
  \/ buildMftReturn

SpecMftBuild == Constructed /\ [][MftBuildNext]_vars

(* ---------------------- PageReplacement: operations ------------------- *)
MaxFrames == 2
MaxRefs == 5
Pages == {0, 1, 2}
pageAlgorithmOptions == {"fifo", "lru", "mru", "clock", "wsclock", "opt"}
tau == 4

\* what parseReference can return: the default string, and every string of
\* at most MaxRefs references to Pages
ReferenceStrings == {defaultRef} \cup UNION {[1..k -> Pages] : k \in 0..MaxRefs}

\* s.indexOf(x, from), 0-based; -1 when absent
IndexOf(s, x, from) == FindIndex([k \in DOMAIN s |-> k > from /\ s[k] = x])

\* variant: once the frames are full the victim is the frame after the pointer
findFifoSkipping(frames, pointer) ==
  LET empty == IndexOf(frames, Null, 0)
  IN IF empty # 0 - 1 THEN empty ELSE (pointer + 1) % Len(frames)

findFifo(frames, pointer) ==
  LET empty == IndexOf(frames, Null, 0)
  IN IF empty # 0 - 1 THEN empty ELSE pointer

RECURSIVE OldestFrom(_, _, _, _)
\* the forEach of findLRU from frame i on
OldestFrom(meta, i, oldest, idx) ==
  IF i >= Len(meta) THEN idx
  ELSE IF meta[i + 1].lastUsed < oldest \/ i = 0
       THEN OldestFrom(meta, i + 1, meta[i + 1].lastUsed, i)
       ELSE OldestFrom(meta, i + 1, oldest, idx)

findLRU(frames, meta) ==
  LET empty == IndexOf(frames, Null, 0)
  IN IF empty # 0 - 1 THEN empty ELSE OldestFrom(meta, 0, 0, 0)

RECURSIVE NewestFrom(_, _, _, _)
\* the forEach of findMRU from frame i on
NewestFrom(meta, i, newest, idx) ==
  IF i >= Len(meta) THEN idx
  ELSE IF meta[i + 1].lastUsed > newest
       THEN NewestFrom(meta, i + 1, meta[i + 1].lastUsed, i)
       ELSE NewestFrom(meta, i + 1, newest, idx)

\* variant: empty frames are not looked for
findMRUOverwriting(frames, meta) == NewestFrom(meta, 0, 0 - Infinity, 0)

findMRU(frames, meta) ==
  LET empty == IndexOf(frames, Null, 0)
  IN IF empty # 0 - 1 THEN empty ELSE NewestFrom(meta, 0, 0 - Infinity, 0)

RECURSIVE FarthestFrom(_, _, _, _, _, _)
\* the forEach of findOPT from frame i on
FarthestFrom(frames, rs, startIndex, i, farthest, idx) ==
  IF i >= Len(frames) THEN idx
  ELSE LET nextUse == IndexOf(rs, frames[i + 1], startIndex)
       IN IF nextUse = 0 - 1
          THEN FarthestFrom(frames, rs, startIndex, i + 1, Infinity, i)
          ELSE IF nextUse > farthest
               THEN FarthestFrom(frames, rs, startIndex, i + 1, nextUse, i)
               ELSE FarthestFrom(frames, rs, startIndex, i + 1, farthest, idx)

\* variant: the victim is the page used soonest
findOPTNearest(frames, rs, startIndex) ==
  LET empty == IndexOf(frames, Null, 0)
      next(k) == IndexOf(rs, frames[k + 1], startIndex)
      use(k) == IF next(k) = 0 - 1 THEN Infinity ELSE next(k)
  IN IF empty # 0 - 1 THEN empty
     ELSE CHOOSE k \in 0..(Len(frames) - 1) :
            \A j \in 0..(Len(frames) - 1) :
              use(k) < use(j) \/ (use(k) = use(j) /\ k <= j)

findOPT(frames, rs, startIndex) ==
  LET empty == IndexOf(frames, Null, 0)
  IN IF empty # 0 - 1 THEN empty
     ELSE FarthestFrom(frames, rs, startIndex, 0, 0 - 1, 0)

\* timeline.push({ index, page, frames: [...frames], fault, replacedIndex })
Pushed(s, page, fault, replacedIndex) ==
  [s EXCEPT !.timeline =
     Append(@, [index |-> Len(s.timeline), page |-> page, frames |-> s.frames,
                fault |-> fault, replacedIndex |-> replacedIndex])]

\* simulate, the hit branch; now() is timeline.length
Hit(s, page, hitIndex) ==
  Pushed([s EXCEPT !.hits = @ + 1,
                   !.meta[hitIndex + 1] = [ref |-> 1, lastUsed |-> Len(s.timeline)]],
         page, FALSE, 0 - 1)

\* simulate: the page goes into the chosen frame
Install(s, page, replacedIndex, pointer) ==
  Pushed([s EXCEPT !.frames[replacedIndex + 1] = page,
                   !.meta[replacedIndex + 1] = [ref |-> 1, lastUsed |-> Len(s.timeline)],
                   !.pointer = pointer],
         page, TRUE, replacedIndex)

\* variant: a fault is not counted
FaultedUncounted(s) == s

\* faults += 1
Faulted(s) == [s EXCEPT !.faults = @ + 1]

\* the policies whose victim search moves a hand
HandPolicies == {"clock", "wsclock"}

\* one pass of the forEach body for a policy without a hand
Step(s, alg, rs, index) ==
  LET page == rs[index + 1]
      hitIndex == IndexOf(s.frames, page, 0)
      replacedIndex == CASE alg = "lru" -> findLRU(s.frames, s.meta)
                         [] alg = "mru" -> findMRU(s.frames, s.meta)
                         [] alg = "opt" -> findOPT(s.frames, rs, index + 1)
                         [] OTHER -> findFifo(s.frames, s.pointer)
      pointer == IF alg \in {"lru", "mru", "opt"} THEN s.pointer
                 ELSE (replacedIndex + 1) % Len(s.frames)
  IN IF hitIndex # 0 - 1 THEN Hit(s, page, hitIndex)
     ELSE Install(Faulted(s), page, replacedIndex, pointer)

RECURSIVE SimulateFrom(_, _, _, _)
SimulateFrom(s, alg, rs, index) ==
  IF index >= Len(rs) THEN s
  ELSE SimulateFrom(Step(s, alg, rs, index), alg, rs, index + 1)

\* the value simulate returns
Outcome(s, rs) ==
  [timeline |-> s.timeline, hits |-> s.hits, faults |-> s.faults,
   references |-> Len(rs)]

\* simulate for a policy without a hand
simulate(alg, n, rs) == Outcome(SimulateFrom(NewSim(n), alg, rs, 0), rs)

\* detectBelady's null
NoBelady == [smaller |-> Null, larger |-> Null]

\* variant: reports when the larger memory has fewer faults
detectBeladyReversed(rs, n) ==
  LET base == simulate("fifo", n, rs)
      larger == simulate("fifo", n + 1, rs)
  IN IF larger.faults < base.faults
     THEN [smaller |-> base.faults, larger |-> larger.faults]
     ELSE NoBelady

detectBelady(rs, n) ==
  LET base == simulate("fifo", n, rs)
      larger == simulate("fifo", n + 1, rs)
  IN IF larger.faults > base.faults
     THEN [smaller |-> base.faults, larger |-> larger.faults]
     ELSE NoBelady

\* reference strings, frame counts and policies the form can hold
PageInit ==
  /\ FitInit /\ SchedConstructed /\ MftInit /\ BankInit /\ DiskInit /\ FileBuilt
  /\ TableBuilt
  /\ refs \in ReferenceStrings
  /\ framesCount \in (IF refs = defaultRef THEN {defaultFrames} ELSE 1..MaxFrames)
  /\ pageAlgorithm \in pageAlgorithmOptions
  /\ Simulating

\* the body of refs.forEach for the next reference; a fault under CLOCK or
\* WSClock enters the victim search
Reference ==
  /\ pagePc = "refs"
  /\ Len(sim.timeline) < Len(refs)
  /\ LET index == Len(sim.timeline)
         hitIndex == IndexOf(sim.frames, refs[index + 1], 0)
     IN IF hitIndex = 0 - 1 /\ pageAlgorithm \in HandPolicies
        THEN /\ sim' = Faulted(sim)
             /\ hand' = sim.pointer
             /\ pagePc' = "hand"
        ELSE /\ sim' = Step(sim, pageAlgorithm, refs, index)
             /\ UNCHANGED <<hand, pagePc>>
  /\ UNCHANGED <<refs, framesCount, pageAlgorithm, pageResults, exceptPage>>

\* findClock or findWSClock returns the frame under the hand
Found ==
  /\ sim' = Install(sim, refs[Len(sim.timeline) + 1], hand,
                    (hand + 1) % Len(sim.frames))
  /\ pagePc' = "refs"
  /\ UNCHANGED hand

\* variant: the pointer is left on the victim
ClockMoveStays ==
  /\ pagePc = "hand" /\ pageAlgorithm = "clock"
  /\ IF sim.frames[hand + 1] = Null \/ sim.meta[hand + 1].ref = 0
     THEN /\ sim' = Install(sim, refs[Len(sim.timeline) + 1], hand, hand)
          /\ pagePc' = "refs"
          /\ UNCHANGED hand
     ELSE /\ sim' = [sim EXCEPT !.meta[hand + 1].ref = 0]
          /\ hand' = (hand + 1) % Len(sim.frames)
          /\ UNCHANGED pagePc
  /\ UNCHANGED <<refs, framesCount, pageAlgorithm, pageResults, exceptPage>>

\* one pass of the while loop of findClock
ClockMove ==
  /\ pagePc = "hand" /\ pageAlgorithm = "clock"
  /\ IF sim.frames[hand + 1] = Null \/ sim.meta[hand + 1].ref = 0
     THEN Found
     ELSE /\ sim' = [sim EXCEPT !.meta[hand + 1].ref = 0]
          /\ hand' = (hand + 1) % Len(sim.frames)
          /\ UNCHANGED pagePc
  /\ UNCHANGED <<refs, framesCount, pageAlgorithm, pageResults, exceptPage>>

\* variant: a frame with reference bit 0 is evicted whatever its age
WSClockMoveAnyAge ==
  /\ pagePc = "hand" /\ pageAlgorithm = "wsclock"
  /\ LET currentTime == Len(sim.timeline)
     IN IF sim.frames[hand + 1] = Null
        THEN Found
        ELSE IF sim.meta[hand + 1].ref = 1
        THEN /\ sim' = [sim EXCEPT !.meta[hand + 1] =
                                     [ref |-> 0, lastUsed |-> currentTime]]
             /\ hand' = (hand + 1) % Len(sim.frames)
             /\ UNCHANGED pagePc
        ELSE Found
  /\ UNCHANGED <<refs, framesCount, pageAlgorithm, pageResults, exceptPage>>

\* one pass of the while loop of findWSClock; currentTime is timeline.length
WSClockMove ==
  /\ pagePc = "hand" /\ pageAlgorithm = "wsclock"
  /\ LET currentTime == Len(sim.timeline)
     IN IF sim.frames[hand + 1] = Null
        THEN Found
        ELSE IF sim.meta[hand + 1].ref = 1
        THEN /\ sim' = [sim EXCEPT !.meta[hand + 1] =
                                     [ref |-> 0, lastUsed |-> currentTime]]
             /\ hand' = (hand + 1) % Len(sim.frames)
             /\ UNCHANGED pagePc
        ELSE IF currentTime - sim.meta[hand + 1].lastUsed > tau
        THEN Found
        ELSE /\ hand' = (hand + 1) % Len(sim.frames)
             /\ UNCHANGED <<sim, pagePc>>
  /\ UNCHANGED <<refs, framesCount, pageAlgorithm, pageResults, exceptPage>>

\* simulate returns; runSimulation adds the Belady check and stores the results
ReturnResults ==
  /\ pagePc = "refs"
  /\ Len(sim.timeline) = Len(refs)
  /\ pageResults' = [timeline |-> sim.timeline, hits |-> sim.hits,
                     faults |-> sim.faults, references |-> Len(refs),
                     belady |-> detectBelady(refs, framesCount)]
  /\ pagePc' = "done"
  /\ UNCHANGED <<refs, framesCount, pageAlgorithm, sim, hand, exceptPage>>

PageNext ==
  \/ Reference
  \/ ClockMove
  \/ WSClockMove
  \/ ReturnResults

SpecPage == PageInit /\ [][PageNext]_vars

\* the loops of simulate and of the victim searches keep taking their steps
SpecPageLive ==
  PageInit /\ [][PageNext]_vars /\ WF_vars(Reference \/ ClockMove \/ WSClockMove)

(* ---------------------- BanksAlgorithm: operations -------------------- *)
\* the largest amount typed into a request field
MaxRequest == 1

\* the request vectors the form can hold
RequestVectors == [1..3 -> 0..MaxRequest]

\* Need = max(Max - Allocation, 0), entry by entry
need ==
  [i \in DOMAIN maxMatrix |->
     [j \in DOMAIN maxMatrix[i] |-> Max(maxMatrix[i][j] - allocation[i][j], 0)]]

\* variant: a process can finish only with resources to spare
CanFinishStrict(needRow, work) == \A idx \in DOMAIN needRow : needRow[idx] < work[idx]

\* need[i].every((required, idx) => required <= work[idx])
CanFinish(needRow, work) == \A idx \in DOMAIN needRow : needRow[idx] <= work[idx]

RECURSIVE SafetyPass(_, _, _, _)
\* the for loop of checkSafety from process i on (1-based); sequence holds
\* the 0-based process numbers
SafetyPass(st, alloc, nd, i) ==
  IF i > Len(alloc) THEN st
  ELSE IF ~st.finish[i] /\ CanFinish(nd[i], st.work)
       THEN SafetyPass([work |-> [idx \in DOMAIN st.work |-> st.work[idx] + alloc[i][idx]],
                        finish |-> [st.finish EXCEPT ![i] = TRUE],
                        sequence |-> Append(st.sequence, i - 1),
                        progress |-> TRUE],
                       alloc, nd, i + 1)
       ELSE SafetyPass(st, alloc, nd, i + 1)

\* variant: the for loop runs once, whatever progress it made
SafetyLoopOnce(st, alloc, nd) == SafetyPass([st EXCEPT !.progress = FALSE], alloc, nd, 1)

RECURSIVE SafetyLoop(_, _, _)
\* while (progress)
SafetyLoop(st, alloc, nd) ==
  IF st.progress
  THEN SafetyLoop(SafetyPass([st EXCEPT !.progress = FALSE], alloc, nd, 1), alloc, nd)
  ELSE st

checkSafety(avail, alloc, nd) ==
  LET st == SafetyLoop([work |-> avail,
                        finish |-> [i \in DOMAIN alloc |-> FALSE],
                        sequence |-> <<>>, progress |-> TRUE], alloc, nd)
  IN [safe |-> \A i \in DOMAIN alloc : st.finish[i], sequence |-> st.sequence]

safetyResult == checkSafety(bankAvailable, allocation, need)

handleReset ==
  /\ maxMatrix' = sampleMax
  /\ allocation' = sampleAllocation
  /\ bankAvailable' = sampleAvailable
  /\ message' = ""
  /\ UNCHANGED exceptBank

\* variant: the Available test comes before the Need test
DenialAvailableFirst(req, needRow, avail) ==
  IF ~(\A i \in DOMAIN req : req[i] <= avail[i])
  THEN "Request exceeds available resources. Denied."
  ELSE IF ~(\A i \in DOMAIN req : req[i] <= needRow[i])
  THEN "Request exceeds process need. Denied."
  ELSE ""

\* variant: the Need test is left out
DenialNeedUnchecked(req, needRow, avail) ==
  IF ~(\A i \in DOMAIN req : req[i] <= avail[i])
  THEN "Request exceeds available resources. Denied."
  ELSE ""

\* the message of the first test of handleSubmitRequest the request fails
Denial(req, needRow, avail) ==
  IF ~(\A i \in DOMAIN req : req[i] <= needRow[i])
  THEN "Request exceeds process need. Denied."
  ELSE IF ~(\A i \in DOMAIN req : req[i] <= avail[i])
  THEN "Request exceeds available resources. Denied."
  ELSE ""

\* variant: the safety check looks at the state before the request
TentativeOnCurrent(newAvailable, newAllocation, newNeed) ==
  checkSafety(bankAvailable, allocation, need)

\* variant: the safety check is given the Need of before the request
TentativeOldNeed(newAvailable, newAllocation, newNeed) ==
  checkSafety(newAvailable, newAllocation, need)

\* const tentative = checkSafety(newAvailable, newAllocation, newNeed)
Tentative(newAvailable, newAllocation, newNeed) ==
  checkSafety(newAvailable, newAllocation, newNeed)

\* variant: every row of the matrix takes the request
AppliedToAll(m, pid, req, sign) ==
  [i \in DOMAIN m |-> [j \in DOMAIN m[i] |-> m[i][j] + sign * req[j]]]

\* row pid of matrix m with req added (sign 1) or taken away (sign -1)
Applied(m, pid, req, sign) ==
  [i \in DOMAIN m |->
     IF i = pid + 1 THEN [j \in DOMAIN m[i] |-> m[i][j] + sign * req[j]] ELSE m[i]]

\* handleSubmitRequest for process pid and vector req: the message it sets
\* and the Available and Allocation it leaves
Submitted(pid, req) ==
  LET newAvailable == [i \in DOMAIN bankAvailable |-> bankAvailable[i] - req[i]]
      newAllocation == Applied(allocation, pid, req, 1)
      newNeed == Applied(need, pid, req, 0 - 1)
      denied(text) == [message |-> text, available |-> bankAvailable,
                       allocation |-> allocation]
      denial == Denial(req, need[pid + 1], bankAvailable)
  IN IF pid < 0 \/ pid >= Len(allocation)
     THEN denied("Select a valid process.")
     ELSE IF denial # ""
     THEN denied(denial)
     ELSE IF ~Tentative(newAvailable, newAllocation, newNeed).safe
     THEN denied("Request would lead to an unsafe state. Denied.")
     ELSE [message |-> "Request granted.", available |-> newAvailable,
           allocation |-> newAllocation]

\* the Submit Request button, with the process and the vector of the form
handleSubmitRequest(pid, req) ==
  \E after \in {Submitted(pid, req)} :
    /\ message' = after.message
    /\ bankAvailable' = after.available
    /\ allocation' = after.allocation
    /\ UNCHANGED <<maxMatrix, exceptBank>>

BankNext ==
  \/ \E pid \in 0..(Len(allocation) - 1), req \in RequestVectors :
       handleSubmitRequest(pid, req)
  \/ handleReset

SpecBank == Constructed /\ [][BankNext]_vars

(* ---------------------- DiskScheduling: operations -------------------- *)
\* the longest list of tokens typed into the requests box
MaxDiskRequests == 3

\* numbers typed into the requests box (200 is beyond the last cylinder) and
\* the head field
Tokens == {41, 65, 199, 200}
Heads == {0, 53, 65, 199}
RequestsInputs ==
  {defaultRequests} \cup UNION {[1..k -> Tokens] : k \in 0..MaxDiskRequests}

\* the effect that follows every change of an input: runSimulation
Rerun ==
  diskResult' = diskSimulate(diskAlgorithm', diskHead', direction',
                             parseRequests(requestsInput', maxCyl))

setRequestsInput(text) ==
  /\ text # requestsInput
  /\ requestsInput' = text
  /\ UNCHANGED <<diskHead, direction, diskAlgorithm, exceptDisk>>
  /\ Rerun

setHead(hd) ==
  /\ hd # diskHead
  /\ diskHead' = hd
  /\ UNCHANGED <<requestsInput, direction, diskAlgorithm, exceptDisk>>
  /\ Rerun

setDirection(dir) ==
  /\ dir # direction
  /\ direction' = dir
  /\ UNCHANGED <<requestsInput, diskHead, diskAlgorithm, exceptDisk>>
  /\ Rerun

setAlgorithm(alg) ==
  /\ alg # diskAlgorithm
  /\ diskAlgorithm' = alg
  /\ UNCHANGED <<requestsInput, diskHead, direction, exceptDisk>>
  /\ Rerun

\* the Run button
runSimulation ==
  /\ UNCHANGED <<requestsInput, diskHead, direction, diskAlgorithm, exceptDisk>>
  /\ Rerun

DiskNext ==
  \/ \E text \in RequestsInputs : setRequestsInput(text)
  \/ \E hd \in Heads : setHead(hd)
  \/ \E dir \in {"right", "left"} : setDirection(dir)
  \/ \E alg \in diskAlgorithmOptions : setAlgorithm(alg)
  \/ runSimulation

SpecDisk == Constructed /\ [][DiskNext]_vars

(* ---------------------- FileAllocations: operations ------------------- *)
strategies == {"contiguous", "linked", "indexed"}

\* numbers typed into the file size and the index blocks fields
FileSizes == {0, 1, 2}
IndexBlockSizes == {0, 1}

\* the indices of the free blocks
FreeIdx(d) == {idx \in DOMAIN d : d[idx].free}

freeBlocks == Cardinality(FreeIdx(disk))

RECURSIVE StretchFrom(_, _, _, _, _)
\* the for loop of findStretch from block i on, with the length and the
\* start of the run of free blocks that ends just before i
StretchFrom(d, size, i, count, start) ==
  IF i > Len(d) THEN Null
  ELSE IF d[i].free
       THEN LET begin == IF count = 0 THEN i ELSE start
            IN IF count + 1 >= size THEN begin
               ELSE StretchFrom(d, size, i + 1, count + 1, begin)
       ELSE StretchFrom(d, size, i + 1, 0, start)

\* the first block of the first run of size free blocks, Null when there is none
findStretch(d, size) == StretchFrom(d, size, 1, 0, 1)

\* blocks dataBlocks labelled with their own id and blocks indexBlocks labelled
\* 'Index', all in use
Placed(d, indexBlocks, dataBlocks) ==
  [idx \in DOMAIN d |->
     IF idx \in indexBlocks THEN [d[idx] EXCEPT !.free = FALSE, !.label = IndexLabel]
     ELSE IF idx \in dataBlocks
     THEN [d[idx] EXCEPT !.free = FALSE, !.label = FileLabel(d[idx].id)]
     ELSE d[idx]]

\* setDisk(updated) after an allocation that placed the blocks of S
Place(indexBlocks, dataBlocks, entry) ==
  /\ disk' = Placed(disk, indexBlocks, dataBlocks)
  /\ fileLog' = entry
  /\ fileCounter' = fileCounter + 1
  /\ placedBy' = [idx \in DOMAIN placedBy |->
                    IF idx \in indexBlocks \cup dataBlocks THEN fileCounter + 1
                    ELSE placedBy[idx]]

\* addLog alone: the allocation failed
Refuse(entry) ==
  /\ fileLog' = entry
  /\ UNCHANGED <<disk, placedBy, fileCounter>>

allocateContiguous(size) ==
  LET start == findStretch(disk, size)
  IN IF start = Null
     THEN Refuse("Contiguous allocation failed: no stretch of free blocks.")
     ELSE Place({}, start..(start + size - 1), "Contiguous: placed file in blocks.")

\* pickRandomFreeBlocks: any count free blocks
allocateLinked(size) ==
  IF size > freeBlocks
  THEN Refuse("Linked allocation failed: not enough free blocks.")
  ELSE \E picked \in {S \in SUBSET FreeIdx(disk) : Cardinality(S) = size} :
         Place({}, picked, "Linked: allocated scattered blocks with next pointers.")

\* the first idxBlocksNeeded of the picked blocks hold the index
allocateIndexed(size, indexBlockSize) ==
  LET idxBlocksNeeded == IF indexBlockSize = 0 THEN 1 ELSE indexBlockSize
      totalNeeded == size + idxBlocksNeeded
  IN IF totalNeeded > freeBlocks
     THEN Refuse("Indexed allocation failed: insufficient free blocks for index + data.")
     ELSE \E picked \in {S \in SUBSET FreeIdx(disk) : Cardinality(S) = totalNeeded} :
            \E indexBlocks \in {S \in SUBSET picked : Cardinality(S) = idxBlocksNeeded} :
              Place(indexBlocks, picked \ indexBlocks,
                    "Indexed: reserved index block(s) and data block(s).")

\* the Allocate button with the form as it is
fileAllocate(strat, size, indexBlockSize) ==
  /\ fileCounter < MaxAllocs
  /\ IF size <= 0
     THEN Refuse("Enter a positive file size (blocks).")
     ELSE CASE strat = "contiguous" -> allocateContiguous(size)
            [] strat = "linked" -> allocateLinked(size)
            [] strat = "indexed" -> allocateIndexed(size, indexBlockSize)
  /\ UNCHANGED exceptFile

\* the label clearRandomFile frees: that of the first block in use
TargetLabel(d) ==
  d[CHOOSE idx \in DOMAIN d : ~d[idx].free /\ \A j \in 1..(idx - 1) : d[j].free].label

\* updated of clearRandomFile
Cleared(d) ==
  [idx \in DOMAIN d |->
     IF d[idx].label = TargetLabel(d)
     THEN [free |-> TRUE, label |-> FreeLabel, id |-> idx]
     ELSE d[idx]]

\* the Free a File button
clearRandomFile ==
  /\ IF FreeIdx(disk) = DOMAIN disk
     THEN Refuse("Nothing to free.")
     ELSE /\ disk' = Cleared(disk)
          /\ fileLog' = "Freed blocks labeled."
          /\ placedBy' = [idx \in DOMAIN disk |->
                            IF disk[idx].label = TargetLabel(disk) THEN 0
                            ELSE placedBy[idx]]
          /\ UNCHANGED fileCounter
  /\ UNCHANGED exceptFile

\* the Reset button
fileReset ==
  /\ disk' \in buildInitialDisk
  /\ fileLog' = "Reset disk to initial state."
  /\ placedBy' = [idx \in 1..totalBlocks |-> 0]
  /\ fileCounter' = 0
  /\ UNCHANGED exceptFile

FileNext ==
  \/ \E strat \in strategies, size \in FileSizes, indexBlockSize \in IndexBlockSizes :
       fileAllocate(strat, size, indexBlockSize)
  \/ clearRandomFile
  \/ fileReset

\* the other components as built, and any disk buildInitialDisk can return
FileConstructed ==
  /\ FitInit /\ SchedConstructed /\ MftInit /\ PageConstructed /\ BankInit /\ DiskInit
  /\ FileInit
  /\ TableBuilt

SpecFile == FileConstructed /\ [][FileNext]_vars

(* ============================ properties ============================== *)
Range(s) == {s[k] : k \in DOMAIN s}
Last(s) == s[Len(s)]

\* a strategy returned and its schedule is stored
Ran == pc = "done" /\ runError = ""

\* schedules a and b give every process the same start and completion
SameTimes(a, b) ==
  /\ Len(a) = Len(b)
  /\ \A e \in Range(a) : \E f \in Range(b) :
       f.order = e.order /\ f.startTime = e.startTime
         /\ f.completionTime = e.completionTime

\* C1: under every policy, every entry of the returned schedule has
\* turnaroundTime = completionTime - arrival and waitingTime = turnaroundTime -
\* burst, and every process has an entry
C1_DerivedTimes ==
  Ran => /\ Len(results) = Len(processes)
         /\ \A e \in Range(results) :
              /\ e.turnaroundTime = FSub(e.completionTime, e.arrival)
              /\ e.waitingTime = FSub(e.turnaroundTime, e.burst)

C1_Witness ==
  /\ Ran /\ selectedAlgorithm = "mlfq" /\ Len(results) = MaxProcs
  /\ \E e \in Range(results) : e.waitingTime > 0 /\ e.arrival > 0

\* C2: under every policy, with arrival >= 0 and burst > 0, every entry of the
\* returned schedule has completionTime >= arrival + burst
C2_CompletionBound ==
  Ran => \A e \in Range(results) : e.completionTime >= FAdd(e.arrival, e.burst)

\* C3: when all bursts are equal, non-preemptive SJF gives every process the
\* start and completion times FCFS gives it
C3_SjfEqualsFcfs ==
  (Ran /\ selectedAlgorithm = "sjfNonPreemptive"
     /\ \A i, j \in DOMAIN processes : processes[i].burst = processes[j].burst)
    => SameTimes(results, runFcfs(processes))

C3_Witness ==
  /\ Ran /\ selectedAlgorithm = "sjfNonPreemptive" /\ Len(processes) = 2
  /\ processes[1].burst = processes[2].burst
  /\ processes[1].arrival = processes[2].arrival
  /\ \E e \in Range(results) : e.order = 1 /\ e.waitingTime > 0

\* C4: with a quantum no smaller than the largest burst, Round Robin gives every
\* process the start and completion times FCFS gives it
C4_RoundRobinEqualsFcfs ==
  (Ran /\ selectedAlgorithm = "roundRobin"
     /\ \A i \in DOMAIN processes : quantum.val >= processes[i].burst)
    => SameTimes(results, runFcfs(processes))

C4_Witness ==
  /\ Ran /\ selectedAlgorithm = "roundRobin" /\ Len(processes) = 2
  /\ \A i \in DOMAIN processes : quantum.val = processes[i].burst
  /\ processes[2].arrival < processes[1].arrival
  /\ \E e \in Range(results) : e.order = 0 /\ e.waitingTime > 0

\* a slice is about to run: some process is ready, or has arrived
RRDispatch ==
  /\ Looping({"roundRobin"})
  /\ ready # <<>> \/ (pending # <<>> /\ data[Head(pending)].arrival <= time)

\* C5: a Round Robin slice runs the head of the FIFO ready queue for at most the
\* quantum; at its end every process that has arrived by then is in the queue,
\* in arrival order, and the preempted process is behind all of them
C5_ArrivalsBeforePreempted ==
  [][RRDispatch =>
       LET fifo == ready \o SelectSeq(pending, LAMBDA i : data[i].arrival <= time')
           cur == current'
       IN /\ cur = Head(fifo)
          /\ runTime' <= quantum.val
          /\ time' = FAdd(time, runTime')
          /\ pending' = SelectSeq(pending, LAMBDA i : data[i].arrival > time')
          /\ ready' = IF data'[cur].remaining > 0
                      THEN Append(Tail(fifo), cur) ELSE Tail(fifo)]_vars

C5_Witness ==
  /\ Looping({"roundRobin"}) /\ current # 0
  /\ data[current].remaining > 0
  /\ Len(ready) = 2 /\ ready[2] = current
  /\ data[ready[1]].startTime = Null
  /\ data[ready[1]].arrival > data[current].startTime

\* a slice is about to run: some process is queued, or has arrived
MlfqDispatch ==
  /\ Looping({"mlfq"})
  /\ \/ \E k \in DOMAIN queues : queues[k] # <<>>
     \/ pending # <<>> /\ data[Head(pending)].arrival <= time

\* the level (1-based) at which process i is queued; 0 when it is not queued
QueuedAt(qs, i) ==
  IF \E k \in DOMAIN qs : i \in Range(qs[k])
  THEN CHOOSE k \in DOMAIN qs : i \in Range(qs[k])
  ELSE 0

\* C6: a process leaving the pending list enters level 0; a process whose slice
\* ends with remaining > 0 is re-queued at the tail of the level below the one
\* it ran at (the lowest level at most), and by then every process that has
\* arrived by the end of the slice is in level 0
C6_MlfqDemotion ==
  [][MlfqDispatch =>
       LET cur == current'
           from == IF QueuedAt(queues, cur) = 0 THEN 1 ELSE QueuedAt(queues, cur)
           to == Min(from + 1, Len(queues))
           entered == Range(pending) \ Range(pending')
       IN /\ \A i \in entered \ {cur} :
               QueuedAt(queues', i) = 1 /\ data'[i].level = 0
          /\ QueuedAt(queues, cur) = 0 => queues[1] = <<>> /\ cur = Head(pending)
          /\ \A i \in Range(pending') : data[i].arrival > time'
          /\ entered = {i \in Range(pending) : data[i].arrival <= time'}
          /\ IF data'[cur].remaining > 0
             THEN /\ QueuedAt(queues', cur) = to
                  /\ Last(queues'[to]) = cur
                  /\ data'[cur].level = to - 1
             ELSE QueuedAt(queues', cur) = 0]_vars

C6_Witness ==
  /\ Looping({"mlfq"}) /\ current # 0
  /\ data[current].remaining > 0
  /\ data[current].level = 2
  /\ Len(queues) = 3 /\ Last(queues[3]) = current
  /\ \E i \in Range(queues[1]) : data[i].startTime = Null

\* the quantum field holds no positive number
InvalidQuantum == settings.rrQuantum.kind # "decimal" \/ settings.rrQuantum.tenths <= 0

\* the level list is empty or holds no positive number
NoPositiveLevel ==
  \A k \in DOMAIN settings.mlfqLevels :
    settings.mlfqLevels[k].kind # "decimal" \/ settings.mlfqLevels[k].tenths <= 0

\* C7: Round Robin with a non-numeric or non-positive quantum, and MLFQ with no
\* positive level, end in a validation error at once: no results, no loop
\* entered, no schedule entry built, the process list as it was
C7_InvalidSettingsRejected ==
  [][(/\ pc = "idle"
      /\ \/ selectedAlgorithm = "roundRobin" /\ InvalidQuantum
         \/ selectedAlgorithm = "mlfq" /\ NoPositiveLevel)
       => /\ pc' = "done"
          /\ runError' # ""
          /\ results' = NoResults
          /\ processes' = processes
          /\ data' = <<>> /\ schedule' = <<>>]_vars

C7_Witness ==
  /\ pc = "done" /\ runError # "" /\ results = NoResults
  /\ selectedAlgorithm = "mlfq"
  /\ settings.mlfqLevels = <<Dec(0), Word>>
  /\ data = <<>>

RECURSIVE SumSizes(_)
SumSizes(bs) == IF bs = <<>> THEN 0 ELSE Head(bs).size + SumSizes(Tail(bs))

\* C8: under every strategy the sizes of all blocks add up to the initial memory
\* size after any sequence of allocate and freeProcess
C8_TotalSize == SumSizes(blocks) = MemorySize

C8_Witness ==
  /\ pidCounter = MaxAllocs + 1
  /\ Len(blocks) >= 3
  /\ blocks[1].free /\ ~blocks[2].free

\* C9: after every allocate and every freeProcess no two neighbouring blocks are
\* both free
C9_NoAdjacentFree ==
  \A k \in 1..(Len(blocks) - 1) : ~(blocks[k].free /\ blocks[k + 1].free)

C9_Witness ==
  /\ pidCounter = 3
  /\ Len(blocks) = 1 /\ blocks[1].free /\ blocks[1].size = MemorySize

\* the 0-based index of the block an allocate step created
Allocated == CHOOSE k \in 0..(Len(blocks') - 1) :
               blocks'[k + 1].label = "P" \o ToString(pidCounter)

\* C10: a Next Fit allocate takes the first hole that fits on one circular scan
\* from the stored start, and the start it stores makes the next scan begin
\* just after the block it allocated: no hole lies between that block and the
\* stored start
C10_NextFitResumesAfterAllocation ==
  [][(fitAlgorithm = "next" /\ pidCounter' = pidCounter + 1) =>
       LET n == Len(blocks)
           offset == (Allocated - nextFitStart) % n
           size == blocks'[Allocated + 1].size
           m == Len(blocks')
           after == (Allocated + 1) % m
           skipped == (nextFitStart' - after) % m
       IN /\ \A o \in 0..(offset - 1) : ~Fits(blocks[((nextFitStart + o) % n) + 1], size)
          /\ Fits(blocks[Allocated + 1], size)
          /\ \A o \in 0..(skipped - 1) : ~blocks'[((after + o) % m) + 1].free]_vars

\* the request sizes at which the answer of findBlockIndex can change for a
\* block list: each block's size and one more, and the sizes the form offers
ProbeSizes(bs) ==
  RequestSizes \cup {bs[k].size : k \in DOMAIN bs}
               \cup {bs[k].size + 1 : k \in DOMAIN bs}

\* 0-based indices of the free blocks of size >= request
Qualifying(bs, size) ==
  {k \in 0..(Len(bs) - 1) : bs[k + 1].free /\ bs[k + 1].size >= size}

\* C11: findBlockIndex returns for First Fit the lowest index of a free block
\* of size >= request, for Best Fit the lowest index among the smallest such
\* blocks, for Worst Fit the lowest index among the largest such blocks, and
\* -1 exactly when no free block of size >= request exists
C11_FindBlockIndex ==
  \A size \in ProbeSizes(blocks) :
    LET q == Qualifying(blocks, size)
        first == findBlockIndex(blocks, "first", nextFitStart, size)
        best == findBlockIndex(blocks, "best", nextFitStart, size)
        worst == findBlockIndex(blocks, "worst", nextFitStart, size)
    IN /\ (q = {}) <=> (first = 0 - 1)
       /\ (q = {}) <=> (best = 0 - 1)
       /\ (q = {}) <=> (worst = 0 - 1)
       /\ q # {} =>
            /\ first \in q /\ \A j \in q : first <= j
            /\ best \in q
            /\ \A j \in q : blocks[best + 1].size <= blocks[j + 1].size
            /\ \A j \in q : blocks[j + 1].size = blocks[best + 1].size => best <= j
            /\ worst \in q
            /\ \A j \in q : blocks[worst + 1].size >= blocks[j + 1].size
            /\ \A j \in q : blocks[j + 1].size = blocks[worst + 1].size => worst <= j

\* two holes of the same size behind an allocated block: a tie for Best Fit
\* and Worst Fit, and a request larger than every hole
C11_Witness ==
  /\ Len(blocks) = 4
  /\ ~blocks[1].free /\ blocks[2].free /\ ~blocks[3].free /\ blocks[4].free
  /\ blocks[2].size = blocks[4].size
  /\ findBlockIndex(blocks, "best", nextFitStart, blocks[2].size) = 1
  /\ findBlockIndex(blocks, "worst", nextFitStart, blocks[2].size) = 1
  /\ findBlockIndex(blocks, "first", nextFitStart, blocks[2].size + 1) = 0 - 1

\* the partitions of segs, with only what an MFT operation may not change
Layout(segs) == [k \in DOMAIN segs |-> [id |-> segs[k].id, size |-> segs[k].size]]

\* C12: in MFT mode, a step that does not rebuild the partitions (allocate,
\* freeProcess, compact) keeps the number of partitions and the id and size
\* of each; the partitions are always the ones buildMft made
C12_MftPartitionsFixed ==
  [][(mode = "mft" /\ ((\E size \in ProcessSizes : mftAllocate(size))
                         \/ mftFreeProcess \/ mftCompact)) =>
       /\ Layout(segments') = Layout(segments)
       /\ Layout(segments') = Layout(buildMft(memorySize, partitionSize))]_vars

\* partitions of unequal size, one occupied with less than its size, one
\* freed again, and Compact pressed
C12_Witness ==
  /\ mode = "mft" /\ partitionSize = 80 /\ memorySize = 200
  /\ mftLog = "Compaction applies to MVT only."
  /\ mftPidCounter = 3
  /\ segments[1].free /\ ~segments[2].free /\ segments[2].requested = 30

\* C13: in MVT mode compact leaves the allocated segments first, as they
\* were and in the same order, then at most one free segment holding all
\* the free space; total memory is unchanged and external fragmentation is 0
C13_CompactMvt ==
  [][(mode = "mvt" /\ mftCompact) =>
       LET allocated == SelectSeq(segments, LAMBDA seg : ~seg.free)
           n == Len(allocated)
           freeBefore == SizeOf(segments, FreeAt(segments))
       IN /\ Len(segments') \in {n, n + 1}
          /\ SubSeq(segments', 1, n) = allocated
          /\ Len(segments') = n + 1 =>
               segments'[n + 1].free /\ segments'[n + 1].size = freeBefore
          /\ Len(segments') = n => freeBefore = 0
          /\ SizeOf(segments', DOMAIN segments') = SizeOf(segments, DOMAIN segments)
          /\ SizeOf(segments', DOMAIN segments') = memorySize
          /\ externalFragmentation(segments', mode') = 0]_vars

\* compacted memory: two processes, then the one hole made of two former holes
C13_Witness ==
  /\ mode = "mvt" /\ mftLog = "Compacted" /\ mftPidCounter = 4
  /\ Len(segments) = 3
  /\ ~segments[1].free /\ ~segments[2].free /\ segments[3].free
  /\ segments[1].label = "P2" /\ segments[2].label = "P3"
  /\ segments[3].size = memorySize - segments[1].size - segments[2].size

\* C14: on the same reference string and frame count, simulate('opt') has
\* no more faults than the simulation of any policy that returned
C14_OptIsOptimal ==
  pagePc = "done" =>
    simulate("opt", framesCount, refs).faults <= pageResults.faults

\* LRU finished with more faults than OPT has on the same input
C14_Witness ==
  /\ pagePc = "done" /\ pageAlgorithm = "lru"
  /\ simulate("opt", framesCount, refs).faults < pageResults.faults

\* C15 as stated: for the default reference string and 3 frames detectBelady
\* reports the anomaly, FIFO with 4 frames having more faults than with 3
C15_BeladyReported ==
  (pagePc = "done" /\ refs = defaultRef /\ framesCount = 3) =>
    /\ pageResults.belady # NoBelady
    /\ pageResults.belady.larger > pageResults.belady.smaller
    /\ pageResults.belady.smaller = simulate("fifo", 3, refs).faults
    /\ pageResults.belady.larger = simulate("fifo", 4, refs).faults

\* C15, amended: for the default reference string and 3 frames detectBelady
\* returns null: FIFO has 10 faults with 3 frames and 7 with 4
C15_NoBeladyOnDefault ==
  (pagePc = "done" /\ refs = defaultRef /\ framesCount = 3) =>
    /\ pageResults.belady = NoBelady
    /\ simulate("fifo", 3, refs).faults = 10
    /\ simulate("fifo", 4, refs).faults = 7

\* the default string run under FIFO with 3 frames
C15_Witness ==
  /\ pagePc = "done" /\ refs = defaultRef /\ framesCount = 3
  /\ pageAlgorithm = "fifo" /\ pageResults.faults = 10

\* C16: for every policy, frame count and reference string simulate comes to
\* the end of its forEach with one timeline step per reference, every victim
\* search having ended
C16_SimulateTerminates ==
  <>(pagePc = "refs" /\ Len(sim.timeline) = Len(refs))

\* C17: for the sample Max, Allocation and Available checkSafety reports
\* safe, and its sequence holds all five processes and starts with process 1
C17_SampleIsSafe ==
  (maxMatrix = sampleMax /\ allocation = sampleAllocation
     /\ bankAvailable = sampleAvailable) =>
    /\ safetyResult.safe
    /\ Len(safetyResult.sequence) = 5
    /\ Range(safetyResult.sequence) = 0..4
    /\ safetyResult.sequence[1] = 1

\* the sample state, with the sequence checkSafety finds for it
C17_Witness ==
  /\ maxMatrix = sampleMax /\ allocation = sampleAllocation
  /\ bankAvailable = sampleAvailable
  /\ safetyResult = [safe |-> TRUE, sequence |-> <<1, 3, 4, 0, 2>>]

\* some entry of the request is larger than the process's Need
ExceedsNeed(pid, req) == \E i \in DOMAIN req : req[i] > need[pid + 1][i]

ExceedsAvailable(req) == \E i \in DOMAIN req : req[i] > bankAvailable[i]

\* C18: a request larger than the process's Need in some resource is denied
\* with the need-exceeded message whatever Available is, and Available and
\* Allocation stay as they were
C18_NeedExceededDenied ==
  \A pid \in 0..4, req \in RequestVectors :
    ExceedsNeed(pid, req) =>
      Submitted(pid, req) = [message |-> "Request exceeds process need. Denied.",
                             available |-> bankAvailable, allocation |-> allocation]

\* nothing is available, so the request just denied for exceeding Need
\* exceeded Available as well
C18_Witness ==
  /\ message = "Request exceeds process need. Denied."
  /\ bankAvailable = <<0, 0, 0>>

\* C19: a request within Need and Available whose tentative state fails
\* checkSafety is rejected as unsafe and leaves Available and Allocation as
\* they were; one whose tentative state passes is committed; Max never
\* changes
C19_UnsafeRejected ==
  /\ maxMatrix = sampleMax
  /\ \A pid \in 0..4, req \in RequestVectors :
       (~ExceedsNeed(pid, req) /\ ~ExceedsAvailable(req)) =>
         LET newAvailable == [i \in DOMAIN bankAvailable |-> bankAvailable[i] - req[i]]
             newAllocation == Applied(allocation, pid, req, 1)
             tentative == checkSafety(newAvailable, newAllocation,
                                      Applied(need, pid, req, 0 - 1))
         IN Submitted(pid, req) =
              IF tentative.safe
              THEN [message |-> "Request granted.", available |-> newAvailable,
                    allocation |-> newAllocation]
              ELSE [message |-> "Request would lead to an unsafe state. Denied.",
                    available |-> bankAvailable, allocation |-> allocation]

\* a request was rejected as unsafe after others had been granted
C19_Witness ==
  /\ message = "Request would lead to an unsafe state. Denied."
  /\ allocation # sampleAllocation

\* C20: from the sample state on, whatever requests are granted or denied,
\* checkSafety reports the current state safe
C20_AlwaysSafe == safetyResult.safe

\* a safe state in which every process but one holds more than in the sample
C20_Witness ==
  /\ message = "Request granted."
  /\ Cardinality({i \in DOMAIN allocation : allocation[i] # sampleAllocation[i]}) >= 4
  /\ safetyResult.safe

\* C21: after any sequence of requests from the sample state, every entry of
\* Allocation is at most the matching entry of Max and no entry of Available
\* is negative
C21_AllocationWithinMax ==
  /\ \A i \in DOMAIN allocation : \A j \in DOMAIN allocation[i] :
       allocation[i][j] <= maxMatrix[i][j]
  /\ \A j \in DOMAIN bankAvailable : bankAvailable[j] >= 0

\* requests were granted until a process holds its whole Max in a resource it
\* still needed in the sample, and a resource is used up
C21_Witness ==
  /\ message = "Request granted."
  /\ \E i \in DOMAIN allocation : \E j \in DOMAIN allocation[i] :
       /\ allocation[i][j] = maxMatrix[i][j]
       /\ sampleAllocation[i][j] < maxMatrix[i][j]
  /\ \E j \in DOMAIN bankAvailable : bankAvailable[j] = 0

\* C22: SSTF with the head at 53 and the requests 98 183 37 122 14 124 65 67
\* visits 65 67 37 14 98 122 124 183, a total seek of 236 cylinders
C22_SstfTextbook ==
  (diskAlgorithm = "sstf" /\ diskHead = 53
     /\ parseRequests(requestsInput, maxCyl) = <<98, 183, 37, 122, 14, 124, 65, 67>>) =>
    /\ diskResult.path = <<53, 65, 67, 37, 14, 98, 122, 124, 183>>
    /\ diskResult.total = 236
    /\ diskResult.served = 8

\* the default requests and head were run under SSTF
C22_Witness ==
  /\ diskAlgorithm = "sstf" /\ diskHead = 53 /\ requestsInput = defaultRequests
  /\ diskResult.total = 236
  /\ diskResult.timeline[8] = [index |-> 7, position |-> 183, move |-> 59,
                               cumulative |-> 236]

RECURSIVE SumMoves(_)
\* the sum of the absolute distances between neighbouring positions of a path
SumMoves(path) ==
  IF Len(path) <= 1 THEN 0
  ELSE Abs(path[2] - path[1]) + SumMoves(Tail(path))

\* C23: for every algorithm, head, direction and request list the total seek
\* of the result is the sum of the absolute step distances of its timeline,
\* and the served count is the number of pending requests given as input
C23_TotalAndServed ==
  /\ diskResult.total = SumMoves(diskResult.path)
  /\ \A k \in DOMAIN diskResult.timeline :
       diskResult.timeline[k].move = Abs(diskResult.path[k + 1] - diskResult.path[k])
  /\ diskResult.served = Len(parseRequests(requestsInput, maxCyl))

\* how many entries of s with an index in idxs equal v
CountIn(s, idxs, v) == Cardinality({i \in idxs : s[i] = v})

C25_FreeReleasesFile ==
  LET inUse == DOMAIN disk \ FreeIdx(disk)
      first == CHOOSE idx \in inUse : \A j \in inUse : idx <= j
  IN (inUse # {} /\ placedBy[first] > 0) =>
       \E file \in {placedBy[idx] : idx \in inUse} \ {0} :
         \A idx \in DOMAIN disk :
           Cleared(disk)[idx].free = (disk[idx].free \/ placedBy[idx] = file)

\* C26: a memory size or partition size that is not positive starts no
\* rebuild and leaves segments as they were; every turn of the loop of
\* buildMft brings remaining closer to 0, so the call returns; and the
\* partitions it returns add up to the memory size, each of the partition
\* size except a last one that may be smaller
C26_SizesValidated ==
  [][/\ (memorySize' <= 0 \/ partitionSize' <= 0) =>
          (building'.pc = "idle" /\ segments' = segments)
     /\ buildMftStep => building'.remaining < building.remaining
     /\ buildMftReturn =>
          /\ SumSizes(segments') = memorySize
          /\ \A k \in 1..(Len(segments') - 1) : segments'[k].size = partitionSize
          /\ Len(segments') > 0
          /\ segments'[Len(segments')].size \in 1..partitionSize]_vars

\* no frame is empty
Full(frames) == \A k \in DOMAIN frames : frames[k] # Null

\* the frames as they were before step k of the timeline
FramesBefore(tl, k) == IF k = 1 THEN NewSim(framesCount).frames ELSE tl[k - 1].frames

\* the step among the first upto of the timeline that installed the page
\* frame f (0-based) holds after them
InstalledAt(tl, upto, f) ==
  CHOOSE j \in 1..upto :
    /\ tl[j].fault /\ tl[j].replacedIndex = f
    /\ \A i \in (j + 1)..upto : ~(tl[i].fault /\ tl[i].replacedIndex = f)

\* the frame whose page was installed earliest
EarliestInstalled(tl, upto) ==
  CHOOSE f \in 0..(framesCount - 1) :
    \A g \in 0..(framesCount - 1) : InstalledAt(tl, upto, f) <= InstalledAt(tl, upto, g)

\* C27: under FIFO every fault that finds all frames full evicts the page that
\* was installed earliest, whatever hits came in between, and between two
\* references the pointer is on that frame
C27_FifoEvictsOldest ==
  pageAlgorithm = "fifo" =>
    /\ \A k \in DOMAIN sim.timeline :
         (sim.timeline[k].fault /\ Full(FramesBefore(sim.timeline, k))) =>
           sim.timeline[k].replacedIndex = EarliestInstalled(sim.timeline, k - 1)
    /\ Full(sim.frames) =>
         sim.pointer = EarliestInstalled(sim.timeline, Len(sim.timeline))

\* with 2 frames full the page of the first frame was hit and then evicted
\* all the same, being the one installed first
C27_Witness ==
  /\ pageAlgorithm = "fifo" /\ framesCount = 2
  /\ \E k \in 2..Len(sim.timeline) :
       /\ ~sim.timeline[k - 1].fault /\ sim.timeline[k].fault
       /\ Full(sim.timeline[k - 1].frames)
       /\ sim.timeline[k - 1].frames[sim.timeline[k].replacedIndex + 1]
            = sim.timeline[k - 1].page

\* C28: under CLOCK with all frames full, a hit sets the reference bit of its
\* frame and leaves the pointer, the frames and the other bits alone; a fault
\* starts its scan at the pointer; a frame met with bit 1 has the bit cleared
\* and the hand moves on by one, nothing else changing; a frame met with bit 0
\* is the victim, and the pointer is left on the frame after it
C28_ClockScan ==
  [][(pageAlgorithm = "clock" /\ Full(sim.frames) /\ Len(sim.timeline) < Len(refs)) =>
       LET n == Len(sim.frames)
           page == refs[Len(sim.timeline) + 1]
           hitIndex == IndexOf(sim.frames, page, 0)
       IN CASE pagePc = "refs" /\ hitIndex # 0 - 1 ->
                 /\ sim'.pointer = sim.pointer /\ sim'.frames = sim.frames
                 /\ sim'.meta[hitIndex + 1].ref = 1
                 /\ \A k \in DOMAIN sim.meta : k # hitIndex + 1 => sim'.meta[k] = sim.meta[k]
                 /\ pagePc' = "refs"
            [] pagePc = "refs" /\ hitIndex = 0 - 1 ->
                 /\ pagePc' = "hand" /\ hand' = sim.pointer
                 /\ sim'.frames = sim.frames /\ sim'.meta = sim.meta
                 /\ sim'.pointer = sim.pointer
            [] pagePc = "hand" /\ sim.meta[hand + 1].ref = 1 ->
                 /\ pagePc' = "hand" /\ hand' = (hand + 1) % n
                 /\ sim'.meta[hand + 1].ref = 0
                 /\ \A k \in DOMAIN sim.meta : k # hand + 1 => sim'.meta[k] = sim.meta[k]
                 /\ sim'.frames = sim.frames /\ sim'.timeline = sim.timeline
                 /\ sim'.pointer = sim.pointer
            [] pagePc = "hand" /\ sim.meta[hand + 1].ref = 0 ->
                 /\ pagePc' = "refs"
                 /\ sim'.timeline[Len(sim'.timeline)].replacedIndex = hand
                 /\ sim'.frames = [sim.frames EXCEPT ![hand + 1] = page]
                 /\ sim'.pointer = (hand + 1) % n
                 /\ \A k \in DOMAIN sim.meta : k # hand + 1 => sim'.meta[k] = sim.meta[k]]_vars

\* a scan that began on a frame with bit 1, cleared it, and has come to a
\* frame with bit 0, the victim
C28_Witness ==
  /\ pageAlgorithm = "clock" /\ pagePc = "hand" /\ Full(sim.frames)
  /\ hand # sim.pointer
  /\ sim.meta[hand + 1].ref = 0
  /\ \E k \in DOMAIN sim.meta : sim.meta[k].ref = 1

\* C29: under WSClock a step replaces a resident page only in the frame under
\* the hand, and only when that frame's reference bit is 0 and the current
\* time less its last-used time is more than tau = 4; a frame passed with
\* reference bit 1 gets the bit cleared and the current time as its last-used
\* time, and keeps its page
C29_WSClockEviction ==
  [][pageAlgorithm = "wsclock" =>
       LET currentTime == Len(sim.timeline)
       IN /\ \A k \in DOMAIN sim.frames :
               (sim.frames[k] # Null /\ sim'.frames[k] # sim.frames[k]) =>
                 /\ pagePc = "hand" /\ k = hand + 1
                 /\ sim.meta[k].ref = 0
                 /\ currentTime - sim.meta[k].lastUsed > tau
          /\ (pagePc = "hand" /\ sim.frames[hand + 1] # Null
                /\ sim.meta[hand + 1].ref = 1) =>
               /\ sim'.meta[hand + 1] = [ref |-> 0, lastUsed |-> currentTime]
               /\ sim'.frames = sim.frames
               /\ hand' = (hand + 1) % Len(sim.frames)]_vars

\* a scan over full frames has passed the frame it began on, which had
\* reference bit 1: its bit is cleared and its last-used time is the current
\* time
C29_Witness ==
  /\ pageAlgorithm = "wsclock" /\ pagePc = "hand" /\ Full(sim.frames)
  /\ framesCount > 1 /\ hand = (sim.pointer + 1) % framesCount
  /\ sim.meta[sim.pointer + 1] = [ref |-> 0, lastUsed |-> Len(sim.timeline)]

\* C30: under every policy a fault that finds a frame empty puts the page in
\* an empty frame and leaves every resident page where it was, so no page is
\* evicted before all frames have been filled
C30_EmptyFramesFirst ==
  \A k \in DOMAIN sim.timeline :
    LET before == FramesBefore(sim.timeline, k)
        step == sim.timeline[k]
    IN (step.fault /\ ~Full(before)) =>
         /\ before[step.replacedIndex + 1] = Null
         /\ step.frames = [before EXCEPT ![step.replacedIndex + 1] = step.page]

\* under MRU the second page went into the second frame, the first frame
\* keeping the page used last
C30_Witness ==
  /\ pageAlgorithm = "mru" /\ framesCount = 2 /\ Len(sim.timeline) >= 2
  /\ sim.timeline[2].fault /\ sim.timeline[2].replacedIndex = 1
  /\ sim.timeline[2].frames[1] = sim.timeline[1].page

RECURSIVE ColumnSum(_, _)
\* the sum of column r of matrix m
ColumnSum(m, r) == IF m = <<>> THEN 0 ELSE Head(m)[r] + ColumnSum(Tail(m), r)

\* C40: for every resource, Available plus the Allocation of all processes is
\* what it was in the sample state, whatever requests were granted or denied,
\* and Max is the sample Max
C40_ResourcesConserved ==
  /\ \A r \in DOMAIN bankAvailable :
       bankAvailable[r] + ColumnSum(allocation, r)
         = sampleAvailable[r] + ColumnSum(sampleAllocation, r)
  /\ maxMatrix = sampleMax

\* a request was denied after others had been granted and had used up a
\* resource
C40_Witness ==
  /\ message = "Request exceeds available resources. Denied."
  /\ allocation # sampleAllocation
  /\ \E r \in DOMAIN bankAvailable : bankAvailable[r] = 0

(* ------------------------- checkSafety by itself ------------------------ *)
\* the largest entry of the matrices and of Available handed to checkSafety
MaxUnits == 1

\* the arguments are matrices of three processes by two resources
SafetyShape == [processes |-> 1..3, resources |-> 1..2]

SafetyMatrices(units) == [SafetyShape.processes -> [SafetyShape.resources -> units]]

\* Available and Need hold 0..MaxUnits, an Allocation entry nothing or MaxUnits
SafetyInputs ==
  [available : [SafetyShape.resources -> 0..MaxUnits],
   allocation : SafetyMatrices({0, MaxUnits}),
   need : SafetyMatrices(0..MaxUnits)]

\* the arguments before the call
SafetyInit ==
  /\ safetyArgs \in SafetyInputs
  /\ safetyReturned = <<>>

\* checkSafety(available, allocation, need): work is a copy of available
\* ([...available]), finish and sequence are new arrays, allocation and need
\* are only read, so the arguments are left as they were handed in
callCheckSafety ==
  /\ safetyReturned = <<>>
  /\ safetyReturned' = checkSafety(safetyArgs.available, safetyArgs.allocation,
                                   safetyArgs.need)
  /\ safetyArgs' = [available |-> safetyArgs.available,
                    allocation |-> safetyArgs.allocation,
                    need |-> safetyArgs.need]
  /\ UNCHANGED <<schedVars, fitVars, mftVars, pageVars, bankVars, diskVars, fileVars,
                 building, syncVars, diningVars>>

SafetyNext == callCheckSafety

SafetyConstructed == CoreBuilt /\ SafetyInit /\ SyncInit /\ DiningInit

SpecSafety == SafetyConstructed /\ [][SafetyNext]_vars

\* the 0-based process numbers in every order
Orderings ==
  {s \in [SafetyShape.processes -> {p - 1 : p \in SafetyShape.processes}] :
     \A i, j \in DOMAIN s : i # j => s[i] # s[j]}

RECURSIVE AllocatedBefore(_, _, _, _)
\* the Allocation of resource r to the processes before position k of order
AllocatedBefore(order, k, args, r) ==
  IF k = 1 THEN 0
  ELSE args.allocation[order[k - 1] + 1][r] + AllocatedBefore(order, k - 1, args, r)

\* Available plus the Allocation of the processes before position k of order
FreedBefore(order, k, args) ==
  [r \in SafetyShape.resources |-> args.available[r] + AllocatedBefore(order, k, args, r)]

\* every process of order finds its Need within what is free at its turn
SafeOrdering(order, args) ==
  /\ order \in Orderings
  /\ \A k \in DOMAIN order :
       \A r \in SafetyShape.resources :
         args.need[order[k] + 1][r] <= FreedBefore(order, k, args)[r]

\* C32: checkSafety reports safe exactly when some ordering of all processes
\* has each Need within Available plus the Allocation of the processes before
\* it; when safe the returned sequence is such an ordering; and the call
\* leaves its three arguments as they were.
C32_SafetyIsOrdering ==
  [][/\ safetyArgs' = safetyArgs
     /\ safetyReturned'.safe <=> (\E order \in Orderings : SafeOrdering(order, safetyArgs))
     /\ safetyReturned'.safe => SafeOrdering(safetyReturned'.sequence, safetyArgs)]_vars

\* a safe call whose sequence is not the input order: the loop went round again
C32_Witness ==
  /\ safetyReturned # <<>>
  /\ safetyReturned.safe
  /\ safetyReturned.sequence = <<1, 2, 0>>

(* ------------------ ProcessSynchronization, operations ------------------ *)
\* handlers that log are followed while step is at most MaxSyncSteps
MaxSyncSteps == 6

\* what the Buffer Capacity field can hold, in halves: Number("") is 0, and
\* the field takes fractions and negative numbers as well as whole numbers
CapacityInputs == {0 - 2 * Half, 0, 1, 1 * Half, 3, 2 * Half, 5, 3 * Half}

\* const empty = Math.max(bufferSize - items, 0)
emptySem == Max(bufferSize - items, 0)

\* const full = items
fullSem == items

\* a log entry: its text, and the two semaphore values written into it
SyncEntry(text, waited, signalled) == [text |-> text, waited |-> waited, signalled |-> signalled]

\* appendLog(entry): the entry goes to the front of log, step grows by one
appendLog(entry) ==
  /\ syncLog' = entry
  /\ syncStep' = syncStep + 1

handleProduce ==
  /\ syncStep <= MaxSyncSteps
  /\ IF items >= bufferSize
     THEN /\ appendLog(SyncEntry("Producer blocked: empty=0, waits on empty semaphore.", 0, 0))
          /\ UNCHANGED items
     ELSE /\ items' = items + 1 * Half
          /\ appendLog(SyncEntry("Producer", emptySem, fullSem + 1 * Half))
  /\ UNCHANGED <<bufferSize, exceptSync>>

handleConsume ==
  /\ syncStep <= MaxSyncSteps
  /\ IF items <= 0
     THEN /\ appendLog(SyncEntry("Consumer blocked: full=0, waits on full semaphore.", 0, 0))
          /\ UNCHANGED items
     ELSE /\ items' = items - 1 * Half
          /\ appendLog(SyncEntry("Consumer", fullSem, emptySem + 1 * Half))
  /\ UNCHANGED <<bufferSize, exceptSync>>

syncReset ==
  /\ bufferSize' = 5 * Half
  /\ items' = 2 * Half
  /\ syncLog' = SyncEntry("Initialized buffer with 2 items.", 0, 0)
  /\ syncStep' = 1
  /\ UNCHANGED exceptSync

\* the Buffer Capacity field: a value that is not a number or is below 1 is
\* dropped, any other is taken as it is
handleSizeChange(value) ==
  /\ syncStep <= MaxSyncSteps
  /\ IF value < 1 * Half
     THEN UNCHANGED <<bufferSize, items, syncLog, syncStep>>
     ELSE /\ bufferSize' = value
          /\ items' = Min(items, value)
          /\ appendLog(SyncEntry("Capacity set", value, 0))
  /\ UNCHANGED exceptSync

SyncNext ==
  \/ handleProduce
  \/ handleConsume
  \/ syncReset
  \/ \E value \in CapacityInputs : handleSizeChange(value)

SyncConstructed == CoreBuilt /\ SafetyIdle /\ SyncInit /\ DiningInit

SpecSync == SyncConstructed /\ [][SyncNext]_vars

\* the step taken was handleProduce, was handleConsume
Produced == syncStep' = syncStep + 1 /\ syncLog'.text \in
  {"Producer", "Producer blocked: empty=0, waits on empty semaphore."}

Consumed == syncStep' = syncStep + 1 /\ syncLog'.text \in
  {"Consumer", "Consumer blocked: full=0, waits on full semaphore."}

\* C33: after any sequence of produce, consume, capacity-change and reset
\* operations 0 <= items <= bufferSize and empty + full = bufferSize; produce
\* on a full buffer and consume on an empty buffer are reported as blocked
\* and leave items unchanged.
C33_BufferWithinCapacity ==
  [][/\ 0 <= items' /\ items' <= bufferSize'
     /\ emptySem' + fullSem' = bufferSize'
     /\ Produced /\ items >= bufferSize
          => syncLog'.text = "Producer blocked: empty=0, waits on empty semaphore."
               /\ items' = items
     /\ Consumed /\ items <= 0
          => syncLog'.text = "Consumer blocked: full=0, waits on full semaphore."
               /\ items' = items]_vars

(* ------------------------- dining philosophers -------------------------- *)
exceptDining == <<schedVars, fitVars, mftVars, pageVars, bankVars, diskVars, fileVars,
                 building, safetyArgs, safetyReturned, syncVars>>

leftForkIndex(id) == id

rightForkIndex(id) == (id + 1) % NUM_PHILOSOPHERS

\* console.log(`[P${id}] ...`)
Logged(id, line) == [id |-> id, line |-> line]

\* variant: the right fork is taken without a look at it
RightTaken(id) == TRUE

\* if (forks[rightForkIndex])
RightAvailable(id) == forks[rightForkIndex(id)]

\* variant: the left fork stays in use when the right one cannot be had
LeftKept(id) == forks

\* forks[leftForkIndex] = true, in the else branch
LeftReleased(id) == [forks EXCEPT ![leftForkIndex(id)] = TRUE]

\* the thinking delay of philosopher id is over: the left fork is taken if it
\* is available, and otherwise the loop starts again
thinkingDone(id) ==
  /\ philosophers[id] = "thinking"
  /\ IF forks[leftForkIndex(id)]
     THEN /\ forks' = [forks EXCEPT ![leftForkIndex(id)] = FALSE]
          /\ philosophers' = [philosophers EXCEPT ![id] = "holdsLeft"]
          /\ console' = Logged(id, "grabbed Left")
     ELSE /\ console' = Logged(id, "is thinking...")
          /\ UNCHANGED <<forks, philosophers>>
  /\ UNCHANGED exceptDining

\* delay(10) is over with the left fork held: the right fork is taken and
\* eating begins, or the left fork is put down and the loop starts again
leftHeld(id) ==
  /\ philosophers[id] = "holdsLeft"
  /\ IF RightAvailable(id)
     THEN /\ forks' = [forks EXCEPT ![rightForkIndex(id)] = FALSE]
          /\ philosophers' = [philosophers EXCEPT ![id] = "eating"]
          /\ console' = Logged(id, "EATING!")
     ELSE /\ forks' = LeftReleased(id)
          /\ philosophers' = [philosophers EXCEPT ![id] = "thinking"]
          /\ console' = Logged(id, "is thinking...")
  /\ UNCHANGED exceptDining

\* the eating delay is over: both forks are put down, the loop starts again
eatingDone(id) ==
  /\ philosophers[id] = "eating"
  /\ forks' = [forks EXCEPT ![leftForkIndex(id)] = TRUE, ![rightForkIndex(id)] = TRUE]
  /\ philosophers' = [philosophers EXCEPT ![id] = "thinking"]
  /\ console' = Logged(id, "is thinking...")
  /\ UNCHANGED exceptDining

\* one call of philosopherLife goes on from its await to the next
philosopherLife(id) == thinkingDone(id) \/ leftHeld(id) \/ eatingDone(id)

DiningNext ==
  \/ \E id \in DOMAIN philosophers : thinkingDone(id)
  \/ \E id \in DOMAIN philosophers : leftHeld(id)
  \/ \E id \in DOMAIN philosophers : eatingDone(id)

DiningConstructed == CoreBuilt /\ SafetyIdle /\ SyncInit /\ DiningInit

SpecDining == DiningConstructed /\ [][DiningNext]_vars

\* every timer set by delay runs out, so every call of philosopherLife goes on
SpecDiningFair ==
  /\ DiningConstructed
  /\ [][DiningNext]_vars
  /\ \A id \in 0..(NUM_PHILOSOPHERS - 1) : WF_vars(philosopherLife(id))

\* philosopher id has set forks[f] to false and not yet back to true
Holds(id, f) ==
  \/ f = leftForkIndex(id) /\ philosophers[id] \in {"holdsLeft", "eating"}
  \/ f = rightForkIndex(id) /\ philosophers[id] = "eating"

Holders(f) == {id \in DOMAIN philosophers : Holds(id, f)}

\* C36: in every interleaving of the five loops a fork is held by at most one
\* philosopher (and is marked in use exactly while it is held), two neighbours
\* never eat at the same moment, and a fork that is put down was held by the
\* philosopher whose step put it down.
C36_ForksExclusive ==
  [][/\ \A f \in DOMAIN forks :
          /\ Cardinality(Holders(f)) <= 1
          /\ forks[f] <=> Holders(f) = {}
     /\ \A id \in DOMAIN philosophers :
          ~(philosophers[id] = "eating" /\ philosophers[rightForkIndex(id)] = "eating")
     /\ \A f \in DOMAIN forks :
          ~forks[f] /\ forks'[f]
            => \E id \in Holders(f) : philosophers'[id] # philosophers[id]]_vars

\* two philosophers eat while a third holds its left fork and finds its right
\* one in use
C36_Witness ==
  /\ philosophers[0] = "eating"
  /\ philosophers[2] = "eating"
  /\ philosophers[4] = "holdsLeft"
  /\ console = Logged(2, "EATING!")

\* all five philosophers hold their left fork
AllHoldOne == \A id \in DOMAIN philosophers : philosophers[id] = "holdsLeft"

NoPageTwice(frames) ==
  \A i, j \in DOMAIN frames : i # j /\ frames[i] # Null => frames[i] # frames[j]

\* C39: for every policy, after every step of simulate no page is resident in
\* two frames, the page just referenced is resident, the snapshot recorded
\* for the step equals the frame contents right after the step, later steps
\* leave the recorded snapshots as they are, and hits + faults is the number
\* of references processed.
C39_StepInvariants ==
  [][/\ Len(sim'.timeline) >= Len(sim.timeline)
     /\ SubSeq(sim'.timeline, 1, Len(sim.timeline)) = sim.timeline
     /\ pagePc' # "hand" =>
          /\ NoPageTwice(sim'.frames)
          /\ sim'.hits + sim'.faults = Len(sim'.timeline)
          /\ sim'.timeline # <<>> =>
               LET last == sim'.timeline[Len(sim'.timeline)]
               IN /\ last.page = refs[Len(sim'.timeline)]
                  /\ IndexOf(sim'.frames, last.page, 0) # 0 - 1
                  /\ last.frames = sim'.frames]_vars

\* a page has been evicted from full frames, after a hit
C39_Witness ==
  /\ pagePc = "refs"
  /\ sim.hits > 0
  /\ Len(sim.timeline) > framesCount + 1
  /\ LET last == sim.timeline[Len(sim.timeline)]
     IN last.fault /\ Full(FramesBefore(sim.timeline, Len(sim.timeline)))

\* the processes runPreemptive can choose from at time t
ArrivedUnfinished(d, t) == {i \in Unfinished(d) : d[i].arrival <= t}

\* a comes before b by remaining time, then arrival, then input order
ShorterFirst(a, b) ==
  \/ a.remaining < b.remaining
  \/ a.remaining = b.remaining /\ a.arrival < b.arrival
  \/ a.remaining = b.remaining /\ a.arrival = b.arrival /\ a.order <= b.order

\* C31: in preemptive SJF, at every decision point the process chosen has the
\* least remaining time among the arrived unfinished processes, ties going to
\* the earlier arrival and then to input order, and it runs until it is
\* finished or the next process arrives, whichever comes first.
C31_ShortestRemainingFirst ==
  [][(Looping({"sjfPreemptive"}) /\ ArrivedUnfinished(data, time) # {}) =>
       LET later == {data[i].arrival : i \in {j \in Unfinished(data) : data[j].arrival > time}}
       IN /\ current' \in ArrivedUnfinished(data, time)
          /\ \A i \in ArrivedUnfinished(data, time) : ShorterFirst(data[current'], data[i])
          /\ \A a \in later : time' <= a
          /\ \/ current' \notin Unfinished(data')
             \/ time' \in later]_vars

\* the level (1-based) the process of the slice just run was taken from
DispatchedFrom(cur) == IF QueuedAt(queues, cur) = 0 THEN 1 ELSE QueuedAt(queues, cur)

\* C34 as stated: runMlfq uses exactly as many levels as quanta are supplied,
\* the last of them with an unbounded quantum: a process dispatched from a
\* level other than the last runs at most that level's quantum, and one
\* dispatched from the last level runs to completion in one slice.
C34_LevelsAsQuanta ==
  [][MlfqDispatch =>
       LET from == DispatchedFrom(current')
       IN /\ Len(queues) = Len(levels)
          /\ from < Len(levels) => runTime' <= levels[from]
          /\ from = Len(levels) => data'[current'].remaining = 0]_vars

\* C34, amended: runMlfq uses one level more than quanta are supplied: a
\* process dispatched from the level of a supplied quantum runs at most that
\* quantum, and a process dispatched from the added last level runs to
\* completion in one slice.
C34_OneLevelMore ==
  [][MlfqDispatch =>
       LET from == DispatchedFrom(current')
       IN /\ Len(queues) = Len(levels) + 1
          /\ from <= Len(levels) => runTime' <= levels[from]
          /\ from = Len(levels) + 1 =>
               /\ runTime' = data[current'].remaining
               /\ data'[current'].remaining = 0]_vars

\* a process has used up the one supplied quantum and was then run to its end
\* from the added level, for as long as that quantum again
C34_Witness ==
  /\ Looping({"mlfq"}) /\ current # 0
  /\ Len(levels) = 1
  /\ queueIndex = 2
  /\ runTime = levels[1]
  /\ data[current].remaining = 0

\* the strategies that run each process in one piece
OnePiece == {"fcfs", "sjfNonPreemptive", "priorityNonPreemptive"}

\* some process other than e holds the CPU at time t
BusyAt(t, e) ==
  \E g \in Range(results) : g.order # e.order /\ g.startTime <= t /\ t < g.completionTime

\* C37: under FCFS and non-preemptive SJF and Priority, with burst > 0, the
\* intervals [startTime, completionTime) of different processes never overlap,
\* and the CPU is never idle while a process that has arrived has not started
\* (an idle stretch could only begin at its arrival or at a completion).
C37_OneAtATimeNoIdling ==
  (Ran /\ selectedAlgorithm \in OnePiece) =>
    /\ \A e, f \in Range(results) :
         e.order # f.order =>
           e.completionTime <= f.startTime \/ f.completionTime <= e.startTime
    /\ \A e \in Range(results) :
         /\ e.startTime >= e.arrival
         /\ e.startTime > e.arrival => BusyAt(e.arrival, e)
         /\ \A f \in Range(results) :
              (e.arrival <= f.completionTime /\ f.completionTime < e.startTime)
                => BusyAt(f.completionTime, e)

\* the shorter job arrived while the first was running and waited for its end
C37_Witness ==
  /\ Ran /\ selectedAlgorithm = "sjfNonPreemptive" /\ Len(results) = 2
  /\ \E e, f \in Range(results) :
       /\ e.startTime < f.arrival /\ f.arrival < e.completionTime
       /\ f.burst < e.burst
       /\ f.startTime = e.completionTime

Sliced == {"roundRobin", "mlfq"}

====
